---- MODULE Spec2Model ----
(***************************************************************************)
(* Model of the Visual Behavior Neuropixels project cache of AllenSDK:     *)
(*   - the version gate (version_check),                                   *)
(*   - BehaviorEcephysProjectCloudApi (manifest loading, metadata tables,  *)
(*     file resolution, session construction),                             *)
(*   - the VisualBehaviorEcephysProjectCache facade.                       *)
(* The cloud cache object the API holds (S3CloudCache / LocalCache) is an  *)
(* external collaborator: its operations are modelled by their contract.   *)
(***************************************************************************)
EXTENDS Integers, Sequences, FiniteSets, TLC

VARIABLES
    vc,         \* the last direct call of version_check and its outcome
    published,  \* how many manifests of the release the store holds (the first n)
    facade,     \* the facade's fetch_api: "absent" (no facade object), "none", "s3", "local"
    skip,       \* fetch_api.skip_version_check
    manifest,   \* fetch_api.cache._manifest: the name of the active manifest, or NoManifest
    tables,     \* for each metadata table of the API, the manifest it was read from
    fs,         \* the volatile local files that are present on disk
    net,        \* whether the remote store can be reached
    last,       \* the operation just called, its outcome and the calls it made
                \* (Idle once the environment has changed since)
    fetch_tries,\* the facade's fetch_tries attribute
    dd,         \* the death-date filter: its input frames and what it returned
    cache,      \* the facade's own cache attribute (self.cache)
    pf          \* a call of a data-object function (timestamps, presentations,
                \* probes): its name, its arguments and what it returned

vars == <<vc, published, facade, skip, manifest, tables, fs, net, last, fetch_tries, dd, pf, cache>>

None == "None"
NoManifest == "no_manifest"
Unset == "unset"

-----------------------------------------------------------------------------
(* Semantic versions.  semver.VersionInfo.parse yields major, minor, patch *)
(* and a prerelease; a version is <<major, minor, patch, pre>> where       *)
(* pre = 0 is "no prerelease" and pre = k > 0 is the k-th prerelease.      *)

\* largest major / minor / patch number of the versions explored
MaxVerPart == 1
\* largest prerelease number of the versions explored
MaxPre == 1

Versions == (0..MaxVerPart) \X (0..MaxVerPart) \X (0..MaxVerPart) \X (0..MaxPre)

\* [min inclusive, max exclusive)
MANIFEST_COMPATIBILITY == << <<0, 1, 0, 0>>, <<1, 0, 0, 0>> >>

cmp(a, b) == IF a < b THEN -1 ELSE IF a > b THEN 1 ELSE 0

\* semver's comparison of the (major, minor, patch) tuples, left to right
RECURSIVE core_cmp(_, _, _)
core_cmp(a, b, i) ==
    IF i > 3 THEN 0
    ELSE IF cmp(a[i], b[i]) # 0 THEN cmp(a[i], b[i])
    ELSE core_cmp(a, b, i + 1)

\* semver.VersionInfo.compare: the core first, then the prerelease, where a
\* version without prerelease is greater than the same core with one
semver_compare(a, b) ==
    LET c == core_cmp(a, b, 1) IN
    IF c # 0 THEN c
    ELSE IF a[4] = 0 /\ b[4] = 0 THEN 0
    ELSE IF a[4] = 0 THEN 1
    ELSE IF b[4] = 0 THEN -1
    ELSE cmp(a[4], b[4])

\* faulty variant of version_check: the upper end of the range taken as inclusive
version_check_gt(manifest_version, data_pipeline_version, cmin, cmax) ==
    (semver_compare(manifest_version, cmin) < 0)
        \/ (semver_compare(manifest_version, cmax) > 0)

\* TRUE iff version_check raises BehaviorCloudCacheVersionException
version_check(manifest_version, data_pipeline_version, cmin, cmax) ==
    (semver_compare(manifest_version, cmin) < 0)
        \/ (semver_compare(manifest_version, cmax) >= 0)

-----------------------------------------------------------------------------
(* The data release: manifests, named in version order, and the tables     *)
(* their metadata files hold.                                              *)

expected_metadata == {"behavior_sessions", "sessions", "probes", "units", "channels"}

\* the order in which load_manifest reads the tables
TableOrder == <<"sessions", "behavior_sessions", "units", "probes", "channels">>

SdkEntry == [name |-> "AllenSDK", version |-> "2.13.0"]
OtherEntry == [name |-> "kilosort", version |-> "2.0"]

TablesA ==
    [behavior |-> << [behavior_session_id |-> 5, ecephys_session_id |-> 10],
                     [behavior_session_id |-> 6, ecephys_session_id |-> 11],
                     [behavior_session_id |-> 7, ecephys_session_id |-> 12],
                     [behavior_session_id |-> 8, ecephys_session_id |-> 10],
                     [behavior_session_id |-> 8, ecephys_session_id |-> 11] >>,
     ecephys  |-> << [ecephys_session_id |-> 10, file_id |-> 99],
                     [ecephys_session_id |-> 11, file_id |-> 98],
                     [ecephys_session_id |-> 11, file_id |-> 7] >>]

TablesB ==
    [behavior |-> << [behavior_session_id |-> 5, ecephys_session_id |-> 11],
                     [behavior_session_id |-> 6, ecephys_session_id |-> 10] >>,
     ecephys  |-> << [ecephys_session_id |-> 10, file_id |-> 7],
                     [ecephys_session_id |-> 11, file_id |-> 99] >>]

\* the manifests of the release, oldest first
ManifestNames == <<"m1", "m2", "m3", "m4", "m5", "m6", "m7">>

ManifestDB ==
    [m1 |-> [version |-> <<0, 1, 0, 0>>, metadata_file_names |-> expected_metadata,
             data_pipeline |-> <<OtherEntry, SdkEntry>>, tbl |-> TablesA],
     m2 |-> [version |-> <<0, 1, 1, 0>>,
             metadata_file_names |-> expected_metadata \ {"channels"},
             data_pipeline |-> <<SdkEntry>>, tbl |-> TablesB],
     m3 |-> [version |-> <<1, 1, 0, 0>>,
             metadata_file_names |-> expected_metadata \cup {"extra_table"},
             data_pipeline |-> <<SdkEntry>>, tbl |-> TablesA],
     m4 |-> [version |-> <<0, 1, 0, 1>>, metadata_file_names |-> expected_metadata,
             data_pipeline |-> <<SdkEntry>>, tbl |-> TablesA],
     m5 |-> [version |-> <<0, 1, 1, 0>>, metadata_file_names |-> expected_metadata,
             data_pipeline |-> <<OtherEntry>>, tbl |-> TablesB],
     m6 |-> [version |-> <<1, 0, 0, 0>>, metadata_file_names |-> expected_metadata,
             data_pipeline |-> <<SdkEntry>>, tbl |-> TablesB],
     m7 |-> [version |-> <<1, 0, 0, 1>>, metadata_file_names |-> expected_metadata,
             data_pipeline |-> <<SdkEntry>>, tbl |-> TablesB]]

\* metadata_file_names of a cache whose manifest was never loaded (Python's None)
NoNames == {None}

NumManifests == Len(ManifestNames)

\* names a caller may pass to load_manifest: the release's and an unknown one
NameInputs == {ManifestNames[i] : i \in 1..NumManifests} \cup {"m0"}

BehaviorIds == 5..9
EcephysIds == 10..12

Digit == <<"0", "1", "2", "3", "4", "5", "6", "7", "8", "9">>

\* str(int(x)) of a non-negative number: its decimal digits
RECURSIVE IntToStr(_)
IntToStr(n) == IF n < 10 THEN Digit[n + 1] ELSE IntToStr(n \div 10) \o Digit[(n % 10) + 1]

FileIdInputs == {"99"}

\* the local path the cache gives a metadata file of manifest m / a data file
MetaPath(m, fname) == "cache/" \o m \o "/" \o fname \o ".csv"
DataPath(file_id) == "cache/data/" \o file_id \o ".nwb"

\* the local files that come and go; every other file of the release is on disk
VolatilePaths == {MetaPath("m1", "units"), DataPath("99")}

\* the sessions table of the manifest that is the latest at the start; it
\* comes and goes only where the specification lets it
SessionsPath == MetaPath("m6", "sessions")

AllVolatilePaths == VolatilePaths \cup {SessionsPath}

OnDisk(path, disk) == path \notin AllVolatilePaths \/ path \in disk

-----------------------------------------------------------------------------
(* Outcomes.  An operation yields a record: err is the exception raised    *)
(* ("" when it returns), msg / count / path what the exception reports,    *)
(* path also the path returned, events the calls made, in order.           *)

NoErr == ""

Ev(name, a) == [ev |-> name, arg |-> a]

Outcome(err, msg, count, path, events, disk) ==
    [err |-> err, msg |-> msg, count |-> count, path |-> path,
     events |-> events, disk |-> disk]

Count(events, name) == Len(SelectSeq(events, LAMBDA e : e.ev = name))

-----------------------------------------------------------------------------
(* The cloud cache held by the API (S3CloudCache, LocalCache).             *)

LatestManifest(npub) == ManifestNames[npub]

PublishedNames(npub) == {ManifestNames[i] : i \in 1..npub}

\* cache.load_manifest(name) / cache.load_last_manifest() (name = None)
cache_load_manifest(name, m, npub) ==
    IF name = None
    THEN [err |-> NoErr, manifest |-> LatestManifest(npub),
          events |-> <<Ev("cache.load_last_manifest", None)>>]
    ELSE IF name \notin PublishedNames(npub)
    THEN [err |-> "ManifestNotFound", manifest |-> m,
          events |-> <<Ev("cache.load_manifest", name)>>]
    ELSE [err |-> NoErr, manifest |-> name,
          events |-> <<Ev("cache.load_manifest", name)>>]

\* cache.metadata_path(fname): {exists, local_path} under the active manifest
cache_metadata_path(fname, m, disk) ==
    IF fname \notin ManifestDB[m].metadata_file_names
    THEN Outcome("ValueError", "not in metadata_file_names", 0, None,
                 <<Ev("cache.metadata_path", fname)>>, disk)
    ELSE [err |-> NoErr, exists |-> OnDisk(MetaPath(m, fname), disk),
          local_path |-> MetaPath(m, fname),
          events |-> <<Ev("cache.metadata_path", fname)>>]

\* cache.data_path(file_id): {exists, local_path}
cache_data_path(file_id, m, disk) ==
    [err |-> NoErr, exists |-> OnDisk(DataPath(file_id), disk),
     local_path |-> DataPath(file_id),
     events |-> <<Ev("cache.data_path", file_id)>>]

\* a cache that fetches the file whether or not it is already on disk
cache_download_always(call, key, path, disk, netup) ==
    IF netup
    THEN Outcome(NoErr, "", 0, path, <<Ev(call, key), Ev("s3.download", path)>>,
                 disk \cup {path})
    ELSE Outcome("FetchError", "download failed", 0, path,
                 <<Ev(call, key), Ev("s3.download", path)>>, disk)

\* the cache's download of a file that may already be on disk
cache_download(call, key, path, disk, netup) ==
    IF OnDisk(path, disk)
    THEN Outcome(NoErr, "", 0, path, <<Ev(call, key)>>, disk)
    ELSE IF netup
    THEN Outcome(NoErr, "", 0, path, <<Ev(call, key), Ev("s3.download", path)>>,
                 disk \cup {path})
    ELSE Outcome("FetchError", "download failed", 0, path,
                 <<Ev(call, key), Ev("s3.download", path)>>, disk)

\* cache.download_metadata(fname)
cache_download_metadata(fname, m, disk, netup) ==
    IF fname \notin ManifestDB[m].metadata_file_names
    THEN Outcome("ValueError", "not in metadata_file_names", 0, None,
                 <<Ev("cache.download_metadata", fname)>>, disk)
    ELSE cache_download("cache.download_metadata", fname, MetaPath(m, fname), disk, netup)

\* cache.download_data(file_id)
cache_download_data(file_id, m, disk, netup) ==
    cache_download("cache.download_data", file_id, DataPath(file_id), disk, netup)

-----------------------------------------------------------------------------
(* BehaviorEcephysProjectCloudApi: file resolution.                        *)

\* faulty variant of _get_local_path: fname and file_id both given goes unnoticed
_get_local_path_noboth(fname, file_id, m, disk) ==
    IF fname = None /\ file_id = None
    THEN Outcome("ValueError", "Must pass either fname or file_id", 0, None, <<>>, disk)
    ELSE LET path == IF fname # None
                     THEN cache_metadata_path(fname, m, disk)
                     ELSE cache_data_path(file_id, m, disk)
         IN  IF path.err # NoErr THEN path
             ELSE IF ~path.exists
             THEN Outcome("FileNotFoundError", "not already on your system", 0,
                          path.local_path, path.events, disk)
             ELSE Outcome(NoErr, "", 0, path.local_path, path.events, disk)

_get_local_path(fname, file_id, m, disk) ==
    IF fname = None /\ file_id = None
    THEN Outcome("ValueError", "Must pass either fname or file_id", 0, None, <<>>, disk)
    ELSE IF fname # None /\ file_id # None
    THEN Outcome("ValueError", "Must pass only one of fname or file_id", 0, None, <<>>, disk)
    ELSE LET path == IF fname # None
                     THEN cache_metadata_path(fname, m, disk)
                     ELSE cache_data_path(file_id, m, disk)
         IN  IF path.err # NoErr THEN path
             ELSE IF ~path.exists
             THEN Outcome("FileNotFoundError", "not already on your system", 0,
                          path.local_path, path.events, disk)
             ELSE Outcome(NoErr, "", 0, path.local_path, path.events, disk)

\* faulty variant of _get_metadata_path: the local-only flag is ignored
_get_metadata_path_nolocal(local, fname, m, disk, netup) ==
    cache_download_metadata(fname, m, disk, netup)

_get_metadata_path(local, fname, m, disk, netup) ==
    IF local
    THEN _get_local_path(fname, None, m, disk)
    ELSE cache_download_metadata(fname, m, disk, netup)

_get_data_path(local, file_id, m, disk, netup) ==
    IF local
    THEN _get_local_path(None, file_id, m, disk)
    ELSE cache_download_data(file_id, m, disk, netup)

-----------------------------------------------------------------------------
(* BehaviorEcephysProjectCloudApi.load_manifest.                           *)

\* _get_ecephys_session_table, _get_behavior_session_table, _get_unit_table,
\* _get_probe_table, _get_channel_table, from the i-th on: each resolves its
\* metadata file and reads it; the first failure ends the load
RECURSIVE load_tables(_, _, _, _, _, _, _)
load_tables(i, local, m, tbls, disk, netup, events) ==
    IF i > Len(TableOrder)
    THEN [err |-> NoErr, msg |-> "", count |-> 0, path |-> None, events |-> events,
          disk |-> disk, manifest |-> m, tables |-> tbls]
    ELSE LET fname == TableOrder[i]
             p == _get_metadata_path(local, fname, m, disk, netup)
         IN  IF p.err # NoErr
             THEN [err |-> p.err, msg |-> p.msg, count |-> 0, path |-> p.path,
                   events |-> events \o p.events, disk |-> p.disk,
                   manifest |-> m, tables |-> tbls]
             ELSE load_tables(i + 1, local, m, [tbls EXCEPT ![fname] = m], p.disk, netup,
                              events \o p.events \o <<Ev("pd.read_csv", p.path)>>)

\* the "AllenSDK" entries of the manifest's data pipeline
sdk_entries(m) == SelectSeq(ManifestDB[m].data_pipeline, LAMBDA i : i.name = "AllenSDK")

Failed(err, msg, events, disk, m, tbls) ==
    [err |-> err, msg |-> msg, count |-> 0, path |-> None, events |-> events,
     disk |-> disk, manifest |-> m, tables |-> tbls]

\* faulty variant of load_manifest: extra metadata files are tolerated
load_manifest_subset(name, local, skipv, m, tbls, disk, netup, npub) ==
    LET c == cache_load_manifest(name, m, npub) IN
    IF c.err # NoErr THEN Failed(c.err, "", c.events, disk, c.manifest, tbls)
    ELSE IF ~(expected_metadata \subseteq ManifestDB[c.manifest].metadata_file_names)
    THEN Failed("RuntimeError", "expected metadata file names", c.events, disk,
                c.manifest, tbls)
    ELSE load_tables(1, local, c.manifest, tbls, disk, netup, c.events)

\* faulty variant of load_manifest: the version gate runs before the metadata
\* file names are looked at
load_manifest_gate_first(name, local, skipv, m, tbls, disk, netup, npub) ==
    LET c == cache_load_manifest(name, m, npub) IN
    IF c.err # NoErr THEN Failed(c.err, "", c.events, disk, c.manifest, tbls)
    ELSE IF ~skipv /\ sdk_entries(c.manifest) = <<>>
    THEN Failed("IndexError", "list index out of range", c.events, disk,
                c.manifest, tbls)
    ELSE LET gate == IF skipv THEN <<>>
                     ELSE <<[ev |-> "version_check", arg |-> c.manifest,
                             version |-> ManifestDB[c.manifest].version]>>
         IN  IF ~skipv /\ version_check(ManifestDB[c.manifest].version,
                                        sdk_entries(c.manifest)[1].version,
                                        MANIFEST_COMPATIBILITY[1],
                                        MANIFEST_COMPATIBILITY[2])
             THEN Failed("BehaviorCloudCacheVersionException", "manifest_version",
                         c.events \o gate, disk, c.manifest, tbls)
             ELSE IF ManifestDB[c.manifest].metadata_file_names # expected_metadata
             THEN Failed("RuntimeError", "expected metadata file names",
                         c.events \o gate, disk, c.manifest, tbls)
             ELSE load_tables(1, local, c.manifest, tbls, disk, netup,
                              c.events \o gate)

\* faulty variant of load_manifest: skip_version_check is not consulted
load_manifest_noskip(name, local, skipv, m, tbls, disk, netup, npub) ==
    LET c == cache_load_manifest(name, m, npub) IN
    IF c.err # NoErr THEN Failed(c.err, "", c.events, disk, c.manifest, tbls)
    ELSE IF ManifestDB[c.manifest].metadata_file_names # expected_metadata
    THEN Failed("RuntimeError", "expected metadata file names", c.events, disk,
                c.manifest, tbls)
    ELSE IF sdk_entries(c.manifest) = <<>>
    THEN Failed("IndexError", "list index out of range", c.events, disk,
                c.manifest, tbls)
    ELSE LET gate == <<[ev |-> "version_check", arg |-> c.manifest,
                        version |-> ManifestDB[c.manifest].version]>>
         IN  IF version_check(ManifestDB[c.manifest].version,
                              sdk_entries(c.manifest)[1].version,
                              MANIFEST_COMPATIBILITY[1],
                              MANIFEST_COMPATIBILITY[2])
             THEN Failed("BehaviorCloudCacheVersionException", "manifest_version",
                         c.events \o gate, disk, c.manifest, tbls)
             ELSE load_tables(1, local, c.manifest, tbls, disk, netup,
                              c.events \o gate)

load_manifest(name, local, skipv, m, tbls, disk, netup, npub) ==
    LET c == cache_load_manifest(name, m, npub) IN
    IF c.err # NoErr THEN Failed(c.err, "", c.events, disk, c.manifest, tbls)
    ELSE IF ManifestDB[c.manifest].metadata_file_names = NoNames
    THEN Failed("RuntimeError", "no metadata file names", c.events, disk,
                c.manifest, tbls)
    ELSE IF ManifestDB[c.manifest].metadata_file_names # expected_metadata
    THEN Failed("RuntimeError", "expected metadata file names", c.events, disk,
                c.manifest, tbls)
    ELSE IF ~skipv /\ sdk_entries(c.manifest) = <<>>
    THEN Failed("IndexError", "list index out of range", c.events, disk,
                c.manifest, tbls)
    ELSE LET gate == IF skipv THEN <<>>
                     ELSE <<[ev |-> "version_check", arg |-> c.manifest,
                             version |-> ManifestDB[c.manifest].version]>>
         IN  IF ~skipv /\ version_check(ManifestDB[c.manifest].version,
                                        sdk_entries(c.manifest)[1].version,
                                        MANIFEST_COMPATIBILITY[1],
                                        MANIFEST_COMPATIBILITY[2])
             THEN Failed("BehaviorCloudCacheVersionException", "manifest_version",
                         c.events \o gate, disk, c.manifest, tbls)
             ELSE load_tables(1, local, c.manifest, tbls, disk, netup,
                              c.events \o gate)

-----------------------------------------------------------------------------
(* BehaviorEcephysProjectCloudApi: sessions.                               *)

behavior_session_table(tbls) == ManifestDB[tbls["behavior_sessions"]].tbl.behavior
ecephys_session_table(tbls) == ManifestDB[tbls["sessions"]].tbl.ecephys

SessionOutcome(err, msg, count, path, events, disk, ret) ==
    [err |-> err, msg |-> msg, count |-> count, path |-> path, events |-> events,
     disk |-> disk, ret |-> ret]

\* faulty variant of the tail: a failed resolution is swallowed and the object
\* is built from the path that could not be resolved
resolve_and_build_swallow(cls, file_id, local, m, disk, netup, events) ==
    LET p == _get_data_path(local, file_id, m, disk, netup) IN
    SessionOutcome(NoErr, "", 0, p.path,
                   events \o p.events \o <<Ev(cls \o ".from_nwb_path", p.path)>>,
                   p.disk, cls)

\* the tail shared by both session getters: resolve the data file, build the object
resolve_and_build(cls, file_id, local, m, disk, netup, events) ==
    LET p == _get_data_path(local, file_id, m, disk, netup) IN
    IF p.err # NoErr
    THEN SessionOutcome(p.err, p.msg, 0, p.path, events \o p.events, p.disk, None)
    ELSE SessionOutcome(NoErr, "", 0, p.path,
                        events \o p.events \o <<Ev(cls \o ".from_nwb_path", p.path)>>,
                        p.disk, cls)

\* faulty variant of get_ecephys_session: the session built by the call before
\* is kept and handed back for the same id
get_ecephys_session_memo(ecephys_session_id, local, m, tbls, disk, netup) ==
    LET row == SelectSeq(ecephys_session_table(tbls),
                         LAMBDA r : r.ecephys_session_id = ecephys_session_id)
        q == <<Ev("ecephys_session_table.query", IntToStr(ecephys_session_id))>>
    IN  IF /\ last.op = "get_ecephys_session" /\ last.err = NoErr
           /\ last.arg = IntToStr(ecephys_session_id)
        THEN SessionOutcome(NoErr, "", 0, last.path, <<>>, disk, last.ret)
        ELSE IF Len(row) # 1
        THEN SessionOutcome("RuntimeError", "1 and only 1 entry", Len(row), None, q, disk, None)
        ELSE resolve_and_build("BehaviorEcephysSession", IntToStr(row[1].file_id),
                               local, m, disk, netup, q)

\* faulty variant of get_ecephys_session: only an absent row is refused
get_ecephys_session_nocheck(ecephys_session_id, local, m, tbls, disk, netup) ==
    LET row == SelectSeq(ecephys_session_table(tbls),
                         LAMBDA r : r.ecephys_session_id = ecephys_session_id)
        q == <<Ev("ecephys_session_table.query", IntToStr(ecephys_session_id))>>
    IN  IF Len(row) = 0
        THEN SessionOutcome("RuntimeError", "1 and only 1 entry", Len(row), None, q, disk, None)
        ELSE resolve_and_build("BehaviorEcephysSession", IntToStr(row[1].file_id),
                               local, m, disk, netup, q)

get_ecephys_session(ecephys_session_id, local, m, tbls, disk, netup) ==
    LET row == SelectSeq(ecephys_session_table(tbls),
                         LAMBDA r : r.ecephys_session_id = ecephys_session_id)
        q == <<Ev("ecephys_session_table.query", IntToStr(ecephys_session_id))>>
    IN  IF Len(row) # 1
        THEN SessionOutcome("RuntimeError", "1 and only 1 entry", Len(row), None, q, disk, None)
        ELSE resolve_and_build("BehaviorEcephysSession", IntToStr(row[1].file_id),
                               local, m, disk, netup, q)

\* faulty variant of get_behavior_session: duplicate behavior rows are refused
\* only after the ecephys table was queried
get_behavior_session_latecheck(behavior_session_id, local, m, tbls, disk, netup) ==
    LET row == SelectSeq(behavior_session_table(tbls),
                         LAMBDA r : r.behavior_session_id = behavior_session_id)
        q == <<Ev("behavior_session_table.query", IntToStr(behavior_session_id))>>
    IN  IF Len(row) = 0
        THEN SessionOutcome("RuntimeError", "1 and only 1 entry", Len(row), None, q, disk, None)
        ELSE LET esid == row[1].ecephys_session_id
                 erow == SelectSeq(ecephys_session_table(tbls),
                                   LAMBDA r : r.ecephys_session_id = esid)
                 q2 == q \o <<Ev("ecephys_session_table.query", IntToStr(esid))>>
             IN  IF Len(row) # 1
                 THEN SessionOutcome("RuntimeError", "1 and only 1 entry", Len(row), None,
                                     q2, disk, None)
                 ELSE IF Len(erow) # 1
                 THEN SessionOutcome("TypeError", "cannot convert the series to int",
                                     0, None, q2, disk, None)
                 ELSE resolve_and_build("BehaviorSession", IntToStr(erow[1].file_id),
                                        local, m, disk, netup, q2)

\* faulty variant of get_behavior_session: the file id is read from the first
\* row of the ecephys table instead of the joined row
get_behavior_session_samerow(behavior_session_id, local, m, tbls, disk, netup) ==
    LET row == SelectSeq(behavior_session_table(tbls),
                         LAMBDA r : r.behavior_session_id = behavior_session_id)
        q == <<Ev("behavior_session_table.query", IntToStr(behavior_session_id))>>
    IN  IF Len(row) # 1
        THEN SessionOutcome("RuntimeError", "1 and only 1 entry", Len(row), None, q, disk, None)
        ELSE LET esid == row[1].ecephys_session_id
                 erow == SelectSeq(ecephys_session_table(tbls),
                                   LAMBDA r : r.ecephys_session_id = esid)
                 q2 == q \o <<Ev("ecephys_session_table.query", IntToStr(esid))>>
             IN  IF Len(erow) # 1
                 THEN SessionOutcome("TypeError", "cannot convert the series to int",
                                     0, None, q2, disk, None)
                 ELSE resolve_and_build("BehaviorSession",
                                        IntToStr(ecephys_session_table(tbls)[1].file_id),
                                        local, m, disk, netup, q2)

get_behavior_session(behavior_session_id, local, m, tbls, disk, netup) ==
    LET row == SelectSeq(behavior_session_table(tbls),
                         LAMBDA r : r.behavior_session_id = behavior_session_id)
        q == <<Ev("behavior_session_table.query", IntToStr(behavior_session_id))>>
    IN  IF Len(row) # 1
        THEN SessionOutcome("RuntimeError", "1 and only 1 entry", Len(row), None, q, disk, None)
        ELSE LET esid == row[1].ecephys_session_id
                 erow == SelectSeq(ecephys_session_table(tbls),
                                   LAMBDA r : r.ecephys_session_id = esid)
                 q2 == q \o <<Ev("ecephys_session_table.query", IntToStr(esid))>>
             IN  \* int(Series) raises TypeError unless the Series has one element
                 IF Len(erow) # 1
                 THEN SessionOutcome("TypeError", "cannot convert the series to int",
                                     0, None, q2, disk, None)
                 ELSE resolve_and_build("BehaviorSession", IntToStr(erow[1].file_id),
                                        local, m, disk, netup, q2)

-----------------------------------------------------------------------------
(* The facade's session getters.                                           *)

\* call_caching takes callables; here fetch stands for what calling the
\* producer yields and read for what calling it once more, on the disk the
\* first call left, yields.

\* call_caching that fetches, writes and then reads: the producer runs twice
call_caching_fetch_then_read(fetch, read) ==
    IF fetch.err # NoErr
    THEN [fetch EXCEPT !.events = <<Ev("fetch_session", None)>> \o @]
    ELSE [read EXCEPT !.events = <<Ev("fetch_session", None)>> \o fetch.events \o
                                 <<Ev("fetch_session", None)>> \o @]

\* call_caching(fetch, write, lazy=False, read=fetch) with a write that stores
\* nothing: the producer is called directly, once, and what it returns or raises
\* is the outcome.
call_caching(fetch, read) ==
    [fetch EXCEPT !.events = <<Ev("fetch_session", None)>> \o @]

\* VisualBehaviorEcephysProjectCache.get_ecephys_session
facade_get_ecephys_session(ecephys_session_id, local, m, tbls, disk, netup) ==
    LET fetch_session == get_ecephys_session(ecephys_session_id, local, m, tbls, disk, netup)
        again == get_ecephys_session(ecephys_session_id, local, m, tbls,
                                     fetch_session.disk, netup)
    IN  call_caching(fetch_session, again)

\* VisualBehaviorEcephysProjectCache.get_behavior_session
facade_get_behavior_session(behavior_session_id, local, m, tbls, disk, netup) ==
    LET fetch_session == get_behavior_session(behavior_session_id, local, m, tbls, disk, netup)
        again == get_behavior_session(behavior_session_id, local, m, tbls,
                                      fetch_session.disk, netup)
    IN  call_caching(fetch_session, again)

-----------------------------------------------------------------------------
(* The state machine.                                                      *)

\* fetch_tries: int = 2
DefaultFetchTries == 2

\* fetch_tries values given to the constructor; the classmethods from_s3_cache
\* and from_local_cache leave the default.
FetchTriesInputs == {DefaultFetchTries, DefaultFetchTries + 1}

DdIdle == [called |-> FALSE, behavior_session_df |-> <<>>, death_df |-> <<>>, out |-> <<>>]

PfIdle == [fn |-> "none", called |-> FALSE]

UnsetTables == [t \in expected_metadata |-> Unset]

Call(op, arg, arg2, r, ret) ==
    [op |-> op, arg |-> arg, arg2 |-> arg2, err |-> r.err, msg |-> r.msg,
     count |-> r.count, path |-> r.path, events |-> r.events, ret |-> ret]

Returned(events) == [err |-> NoErr, msg |-> "", count |-> 0, path |-> None, events |-> events]

Idle == Call("none", None, None, Returned(<<>>), None)

VcIdle == [called |-> FALSE, v |-> <<0, 0, 0, 0>>, cmin |-> MANIFEST_COMPATIBILITY[1],
           cmax |-> MANIFEST_COMPATIBILITY[2], raised |-> FALSE]

Init ==
    /\ vc = VcIdle
    /\ published = NumManifests - 1
    /\ facade = "absent"
    /\ skip = FALSE
    /\ manifest = NoManifest
    /\ tables = UnsetTables
    /\ fs = AllVolatilePaths
    /\ net = TRUE
    /\ last = Idle
    /\ fetch_tries = DefaultFetchTries
    /\ dd = DdIdle
    /\ pf = PfIdle
    /\ cache = None

is_cloud_api == facade \in {"s3", "local"}
is_local == facade = "local"

\* type(self.fetch_api).__name__
fetch_api_type == IF is_cloud_api THEN "BehaviorEcephysProjectCloudApi" ELSE "NoneType"

\* The message without the name of the fetch_api's type.
_cache_not_implemented_untyped(method_name) ==
    [err |-> "NotImplementedError",
     msg |-> <<"Method ", method_name, " does not exist for this ",
               "VisualBehaviorEcephysProjectCache">>,
     count |-> 0, path |-> None, events |-> <<>>]

\* VisualBehaviorEcephysProjectCache._cache_not_implemented: the message is the
\* sequence of the parts the f-strings join.
_cache_not_implemented(method_name) ==
    [err |-> "NotImplementedError",
     msg |-> <<"Method ", method_name, " does not exist for this ",
               "VisualBehaviorEcephysProjectCache", ", which is based on ",
               fetch_api_type>>,
     count |-> 0, path |-> None, events |-> <<>>]

\* self.fetch_api.<method> on the default fetch_api = None
no_fetch_api ==
    [err |-> "AttributeError", msg |-> "NoneType", count |-> 0, path |-> None,
     events |-> <<>>]

(* The release publishes its newest manifest. *)
Publish ==
    /\ published < NumManifests
    /\ published' = published + 1
    /\ last' = Idle
    /\ UNCHANGED <<cache, pf, dd, fetch_tries, vc, facade, skip, manifest, tables, fs, net>>

(* A local file appears or disappears out of band. *)
FsChange(p) ==
    /\ fs' = IF p \in fs THEN fs \ {p} ELSE fs \cup {p}
    /\ last' = Idle
    /\ UNCHANGED <<cache, pf, dd, fetch_tries, vc, published, facade, skip, manifest, tables, net>>

(* The remote store becomes reachable or unreachable. *)
NetChange ==
    /\ net' = ~net
    /\ last' = Idle
    /\ UNCHANGED <<cache, pf, dd, fetch_tries, vc, published, facade, skip, manifest, tables, fs>>

\* faulty variant of the constructor: the facade keeps the API's cache as its own
VisualBehaviorEcephysProjectCache_init_shared(fetch_api, tries) ==
    [fetch_api |-> fetch_api,
     cache |-> IF fetch_api = "none" THEN None ELSE "fetch_api.cache",
     fetch_tries |-> tries]

\* VisualBehaviorEcephysProjectCache.__init__(fetch_api, fetch_tries)
VisualBehaviorEcephysProjectCache_init(fetch_api, tries) ==
    [fetch_api |-> fetch_api, cache |-> None, fetch_tries |-> tries]

(* VisualBehaviorEcephysProjectCache(fetch_api=None), from_s3_cache, from_local_cache,
   or the facade over an API built with skip_version_check = sk: the API's
   constructor loads the last manifest; when it raises no object exists. *)
Construct(kind, sk, tries) ==
    IF kind = "none"
    THEN /\ \E self \in {VisualBehaviorEcephysProjectCache_init(kind, tries)} :
                /\ facade' = self.fetch_api
                /\ fetch_tries' = self.fetch_tries
                /\ cache' = self.cache
         /\ skip' = FALSE /\ manifest' = NoManifest
         /\ tables' = UnsetTables
         /\ last' = Call("__init__", kind, None, Returned(<<>>), None)
         /\ UNCHANGED <<pf, dd, vc, published, fs, net>>
    ELSE \E r \in {load_manifest(None, kind = "local", sk, NoManifest, UnsetTables,
                                fs, net, published)} :
             /\ \E self \in {VisualBehaviorEcephysProjectCache_init(kind, tries)} :
                    /\ facade' = IF r.err = NoErr THEN self.fetch_api ELSE "absent"
                    /\ fetch_tries' = IF r.err = NoErr THEN self.fetch_tries
                                      ELSE DefaultFetchTries
                    /\ cache' = IF r.err = NoErr THEN self.cache ELSE None
             /\ skip' = IF r.err = NoErr THEN sk ELSE FALSE
             /\ manifest' = IF r.err = NoErr THEN r.manifest ELSE NoManifest
             /\ tables' = IF r.err = NoErr THEN r.tables ELSE UnsetTables
             /\ fs' = r.disk
             /\ last' = Call("__init__", kind, IF sk THEN "skip_version_check" ELSE None,
                              r, r.manifest)
             /\ UNCHANGED <<pf, dd, vc, published, net>>

(* VisualBehaviorEcephysProjectCache.load_manifest(manifest_name) *)
FacadeLoadManifest(name) ==
    /\ facade # "absent"
    /\ IF ~is_cloud_api
       THEN /\ last' = Call("load_manifest", name, None,
                            _cache_not_implemented("load_manifest"), None)
            /\ UNCHANGED <<manifest, tables, fs>>
       ELSE \E r \in {load_manifest(name, is_local, skip, manifest, tables, fs, net, published)} :
                /\ manifest' = r.manifest
                /\ tables' = r.tables
                /\ fs' = r.disk
                /\ last' = Call("load_manifest", name, None, r, r.manifest)
    /\ UNCHANGED <<cache, pf, dd, fetch_tries, vc, published, facade, skip, net>>

(* VisualBehaviorEcephysProjectCache.load_latest_manifest(): straight to
   fetch_api.cache.load_latest_manifest() *)
FacadeLoadLatestManifest ==
    /\ facade # "absent"
    /\ IF ~is_cloud_api
       THEN /\ last' = Call("load_latest_manifest", None, None,
                            _cache_not_implemented("load_latest_manifest"), None)
            /\ UNCHANGED manifest
       ELSE /\ manifest' = LatestManifest(published)
            /\ last' = Call("load_latest_manifest", None, None,
                            Returned(<<Ev("cache.load_latest_manifest", None)>>),
                            LatestManifest(published))
    /\ UNCHANGED <<cache, pf, dd, fetch_tries, vc, published, facade, skip, tables, fs, net>>

(* What the cache's manifest methods and properties hand back. *)
cache_value(method_name, a, b) ==
    CASE method_name = "compare_manifests" -> "changes from " \o a \o " to " \o b
      [] method_name \in {"latest_manifest_file", "latest_downloaded_manifest_file"} ->
             LatestManifest(published)
      [] method_name \in {"list_manifest_file_names", "list_all_downloaded_manifests"} ->
             SubSeq(ManifestNames, 1, published)
      [] method_name = "current_manifest" ->
             IF manifest = NoManifest THEN None ELSE manifest
      [] OTHER -> None

(* The guard refuses every backend but the one built by from_s3_cache. *)
manifest_method_s3_only(method_name, a, b) ==
    IF facade # "s3"
    THEN _cache_not_implemented(method_name) @@ [ret |-> None]
    ELSE Returned(<<Ev("cache." \o method_name, a)>>) @@
         [ret |-> cache_value(method_name, a, b)]

(* The body shared by the facade's manifest-management methods: the isinstance
   guard, then the cache's method or property of the same name. *)
manifest_method(method_name, a, b) ==
    IF ~is_cloud_api
    THEN _cache_not_implemented(method_name) @@ [ret |-> None]
    ELSE Returned(<<Ev("cache." \o method_name, a)>>) @@
         [ret |-> cache_value(method_name, a, b)]

ManifestMethodStep(method_name, a, b) ==
    /\ facade # "absent"
    /\ \E r \in {manifest_method(method_name, a, b)} :
           last' = Call(method_name, a, b, r, r.ret)
    /\ UNCHANGED <<cache, pf, dd, fetch_tries, vc, published, facade, skip, manifest, tables, fs, net>>

(* VisualBehaviorEcephysProjectCache.construct_local_manifest() *)
FacadeConstructLocalManifest == ManifestMethodStep("construct_local_manifest", None, None)

(* VisualBehaviorEcephysProjectCache.compare_manifests(manifest_0_name, manifest_1_name) *)
FacadeCompareManifests(manifest_0_name, manifest_1_name) ==
    ManifestMethodStep("compare_manifests", manifest_0_name, manifest_1_name)

(* VisualBehaviorEcephysProjectCache.latest_downloaded_manifest_file() *)
FacadeLatestDownloadedManifestFile ==
    ManifestMethodStep("latest_downloaded_manifest_file", None, None)

(* VisualBehaviorEcephysProjectCache.latest_manifest_file() *)
FacadeLatestManifestFile == ManifestMethodStep("latest_manifest_file", None, None)

(* VisualBehaviorEcephysProjectCache.list_all_downloaded_manifests() *)
FacadeListAllDownloadedManifests ==
    ManifestMethodStep("list_all_downloaded_manifests", None, None)

(* VisualBehaviorEcephysProjectCache.list_manifest_file_names() *)
FacadeListManifestFileNames == ManifestMethodStep("list_manifest_file_names", None, None)

(* VisualBehaviorEcephysProjectCache.current_manifest() *)
FacadeCurrentManifest == ManifestMethodStep("current_manifest", None, None)

\* the manifest property of VisualBehaviorEcephysProjectCache: the message is
\* the sequence of the parts the f-strings join
manifest_property ==
    IF cache = None
    THEN [err |-> "NotImplementedError",
          msg |-> <<"A ", "VisualBehaviorEcephysProjectCache", " based on ",
                    fetch_api_type,
                    " does not have an accessible manifest property">>,
          count |-> 0, path |-> None, events |-> <<>>, ret |-> None]
    ELSE Returned(<<>>) @@ [ret |-> manifest]

(* reading VisualBehaviorEcephysProjectCache.manifest *)
FacadeManifest ==
    /\ facade # "absent"
    /\ \E r \in {manifest_property} : last' = Call("manifest", None, None, r, r.ret)
    /\ UNCHANGED <<cache, pf, dd, fetch_tries, vc, published, facade, skip, manifest, tables, fs, net>>

(* Python values handed back by the table accessors. *)
DataFrame(fname, m) == [type |-> "DataFrame", table |-> fname, manifest |-> m]
Tuple1(v) == [type |-> "tuple", items |-> <<v>>]
PyNone == [type |-> "NoneType"]

TableAccessors ==
    {"get_ecephys_session_table", "get_behavior_session_table", "get_probe_table",
     "get_channel_table", "get_unit_table"}

(* The metadata file behind each accessor. *)
TableOf(accessor) ==
    CASE accessor = "get_ecephys_session_table" -> "sessions"
      [] accessor = "get_behavior_session_table" -> "behavior_sessions"
      [] accessor = "get_probe_table" -> "probes"
      [] accessor = "get_channel_table" -> "channels"
      [] accessor = "get_unit_table" -> "units"

(* BehaviorEcephysProjectCloudApi.get_*_table: the attribute set by the last
   _get_*_table *)
api_get_table(accessor, tbls) == DataFrame(TableOf(accessor), tbls[TableOf(accessor)])

(* Every accessor resolves and reads its file when called. *)
facade_get_table_lazy(accessor, tbls) ==
    Returned(<<Ev("fetch_api." \o accessor, None),
               Ev("cache.download_metadata", TableOf(accessor)),
               Ev("pd.read_csv", MetaPath(manifest, TableOf(accessor)))>>) @@
    [ret |-> IF accessor = "get_probe_table" THEN PyNone
             ELSE Tuple1(api_get_table(accessor, tbls))]

(* VisualBehaviorEcephysProjectCache.get_*_table: "return <call>," is a tuple of
   one element; get_probe_table has the call and no return. *)
facade_get_table(accessor, tbls) ==
    Returned(<<Ev("fetch_api." \o accessor, None)>>) @@
    [ret |-> IF accessor = "get_probe_table" THEN PyNone
             ELSE Tuple1(api_get_table(accessor, tbls))]

FacadeGetTable(accessor) ==
    /\ facade # "absent"
    /\ IF ~is_cloud_api
       THEN last' = Call(accessor, None, None, no_fetch_api, PyNone)
       ELSE \E r \in {facade_get_table(accessor, tables)} :
                last' = Call(accessor, None, None, r, r.ret)
    /\ UNCHANGED <<cache, pf, dd, fetch_tries, vc, published, facade, skip, manifest, tables, fs, net>>

(* VisualBehaviorEcephysProjectCache.get_ecephys_session(ecephys_session_id) *)
FacadeGetEcephysSession(id) ==
    /\ facade # "absent"
    /\ IF ~is_cloud_api
       THEN /\ last' = Call("get_ecephys_session", IntToStr(id), None, no_fetch_api, None)
            /\ UNCHANGED fs
       ELSE \E r \in {facade_get_ecephys_session(id, is_local, manifest, tables, fs, net)} :
                /\ fs' = r.disk
                /\ last' = Call("get_ecephys_session", IntToStr(id), None, r, r.ret)
    /\ UNCHANGED <<cache, pf, dd, fetch_tries, vc, published, facade, skip, manifest, tables, net>>

(* VisualBehaviorEcephysProjectCache.get_behavior_session(behavior_session_id) *)
FacadeGetBehaviorSession(id) ==
    /\ facade # "absent"
    /\ IF ~is_cloud_api
       THEN /\ last' = Call("get_behavior_session", IntToStr(id), None, no_fetch_api, None)
            /\ UNCHANGED fs
       ELSE \E r \in {facade_get_behavior_session(id, is_local, manifest, tables, fs, net)} :
                /\ fs' = r.disk
                /\ last' = Call("get_behavior_session", IntToStr(id), None, r, r.ret)
    /\ UNCHANGED <<cache, pf, dd, fetch_tries, vc, published, facade, skip, manifest, tables, net>>

(* fetch_api._get_local_path(fname, file_id) *)
ApiGetLocalPath(fname, file_id) ==
    /\ is_cloud_api
    /\ \E r \in {_get_local_path(fname, file_id, manifest, fs)} :
           last' = Call("_get_local_path", fname, file_id, r, r.path)
    /\ UNCHANGED <<cache, pf, dd, fetch_tries, vc, published, facade, skip, manifest, tables, fs, net>>

(* What the same resolution returned when the call just before was that
   resolution (no other call, no change of the files, the network or the
   manifest in between); NoPrev otherwise. *)
NoPrev == [path |-> None, err |-> None, downloads |-> 0]

PrevResolution(fname) ==
    IF last.op = "_get_metadata_path" /\ last.arg = fname
    THEN [path |-> last.path, err |-> last.err,
          downloads |-> Count(last.events, "s3.download")]
    ELSE NoPrev

(* fetch_api._get_metadata_path(fname) *)
ApiGetMetadataPath(fname) ==
    /\ is_cloud_api
    /\ \E r \in {_get_metadata_path(is_local, fname, manifest, fs, net)} :
           /\ fs' = r.disk
           /\ last' = Call("_get_metadata_path", fname, None, r, r.path) @@
                       [prev |-> PrevResolution(fname)]
    /\ UNCHANGED <<cache, pf, dd, fetch_tries, vc, published, facade, skip, manifest, tables, net>>

(* fetch_api._get_data_path(file_id) *)
ApiGetDataPath(file_id) ==
    /\ is_cloud_api
    /\ \E r \in {_get_data_path(is_local, file_id, manifest, fs, net)} :
           /\ fs' = r.disk
           /\ last' = Call("_get_data_path", None, file_id, r, r.path)
    /\ UNCHANGED <<cache, pf, dd, fetch_tries, vc, published, facade, skip, manifest, tables, net>>

FnameInputs == {"sessions", "units"}
CompareInputs == {"m1", "m6"}

Next ==
    \/ Publish
    \/ \E p \in VolatilePaths : FsChange(p)
    \/ NetChange
    \/ \E kind \in {"none", "s3", "local"}, sk \in BOOLEAN :
           \E tries \in (IF kind = "s3" /\ ~sk THEN FetchTriesInputs ELSE {DefaultFetchTries}) :
               Construct(kind, sk, tries)
    \/ \E name \in NameInputs : FacadeLoadManifest(name)
    \/ FacadeLoadLatestManifest
    \/ FacadeConstructLocalManifest
    \/ \E manifest_0_name \in CompareInputs :
           \E manifest_1_name \in CompareInputs \ {manifest_0_name} :
               FacadeCompareManifests(manifest_0_name, manifest_1_name)
    \/ FacadeLatestDownloadedManifestFile
    \/ FacadeLatestManifestFile
    \/ FacadeListAllDownloadedManifests
    \/ FacadeListManifestFileNames
    \/ FacadeCurrentManifest
    \/ FacadeManifest
    \/ \E accessor \in TableAccessors : FacadeGetTable(accessor)
    \/ \E id \in EcephysIds : FacadeGetEcephysSession(id)
    \/ \E id \in BehaviorIds : FacadeGetBehaviorSession(id)
    \/ \E fname \in FnameInputs \cup {None}, file_id \in FileIdInputs \cup {None} :
           ApiGetLocalPath(fname, file_id)
    \/ \E fname \in FnameInputs : ApiGetMetadataPath(fname)
    \/ \E file_id \in FileIdInputs : ApiGetDataPath(file_id)

Spec == Init /\ [][Next]_vars

(* The same program where the sessions table's file, too, comes and goes. *)
NextFs ==
    \/ Next
    \/ FsChange(SessionsPath)

SpecFs == Init /\ [][NextFs]_vars

-----------------------------------------------------------------------------
(* The version gate on its own: version_check applied to every triple of   *)
(* versions.                                                               *)

InitVC ==
    /\ vc \in [called : {FALSE}, v : Versions, cmin : Versions, cmax : Versions,
               raised : {FALSE}]
    /\ published = NumManifests - 1
    /\ facade = "absent"
    /\ skip = FALSE
    /\ manifest = NoManifest
    /\ tables = UnsetTables
    /\ fs = AllVolatilePaths
    /\ net = TRUE
    /\ last = Idle
    /\ fetch_tries = DefaultFetchTries
    /\ dd = DdIdle
    /\ pf = PfIdle
    /\ cache = None

VersionCheckCall ==
    /\ ~vc.called
    /\ vc' = [vc EXCEPT !.called = TRUE,
                        !.raised = version_check(vc.v, "2.13.0", vc.cmin, vc.cmax)]
    /\ UNCHANGED <<cache, pf, dd, fetch_tries, published, facade, skip, manifest, tables, fs, net, last>>

NextVC == VersionCheckCall

SpecVC == InitVC /\ [][NextVC]_vars

-----------------------------------------------------------------------------
(* The death-date filter of the metadata writer's LIMS queries, applied to  *)
(* every small behavior-session frame and to the frame of its test.  Dates  *)
(* are numbers that grow with time; the test's dates are written yyyymmdd.  *)

MaxRows == 3
MaxDate == 3

Mice == {123, 456}
Dates == 1..MaxDate

\* death_dates of test_filter_on_death_date
TestDeaths == [m \in {123, 456, 789} |->
                  CASE m = 123 -> 20200409 [] m = 456 -> 20200302 [] m = 789 -> 20200714]

\* session_data of test_filter_on_death_date
TestSessions ==
    << [mouse_id |-> 123, session_id |-> 0, date_of_acquisition |-> 20200607],
       [mouse_id |-> 789, session_id |-> 1, date_of_acquisition |-> 20200622],
       [mouse_id |-> 123, session_id |-> 2, date_of_acquisition |-> 20200305],
       [mouse_id |-> 456, session_id |-> 3, date_of_acquisition |-> 20200408],
       [mouse_id |-> 456, session_id |-> 4, date_of_acquisition |-> 20200202],
       [mouse_id |-> 123, session_id |-> 5, date_of_acquisition |-> 20200407] >>

\* a frame whose i-th row has session_id i - 1
SessionFrame(f) ==
    [i \in DOMAIN f |-> [mouse_id |-> f[i][1], session_id |-> i - 1,
                         date_of_acquisition |-> f[i][2]]]

DdInput(df, deaths) ==
    [called |-> FALSE, behavior_session_df |-> df, death_df |-> deaths, out |-> <<>>]

DdInputs ==
    {DdInput(SessionFrame(f), d) :
         f \in UNION {[1..n -> Mice \X Dates] : n \in 0..MaxRows}, d \in [Mice -> Dates]}
    \cup {DdInput(TestSessions, TestDeaths)}

\* the filter that also drops a session acquired on the day of death
_filter_on_death_date_before(behavior_session_df, death_df) ==
    SelectSeq(behavior_session_df,
              LAMBDA row : row.date_of_acquisition < death_df[row.mouse_id])

\* _filter_on_death_date(behavior_session_df, lims_connection): death_df is what
\* the connection returns for the mice of the frame
_filter_on_death_date(behavior_session_df, death_df) ==
    SelectSeq(behavior_session_df,
              LAMBDA row : ~(row.date_of_acquisition > death_df[row.mouse_id]))

InitDD ==
    /\ dd \in DdInputs
    /\ pf = PfIdle
    /\ cache = None
    /\ vc = VcIdle
    /\ published = NumManifests - 1
    /\ facade = "absent"
    /\ skip = FALSE
    /\ manifest = NoManifest
    /\ tables = UnsetTables
    /\ fs = AllVolatilePaths
    /\ net = TRUE
    /\ last = Idle
    /\ fetch_tries = DefaultFetchTries

FilterOnDeathDate ==
    /\ ~dd.called
    /\ dd' = [dd EXCEPT !.called = TRUE,
                        !.out = _filter_on_death_date(dd.behavior_session_df, dd.death_df)]
    /\ UNCHANGED <<cache, pf, vc, published, facade, skip, manifest, tables, fs, net, last, fetch_tries>>

NextDD == FilterOnDeathDate

SpecDD == InitDD /\ [][NextDD]_vars

-----------------------------------------------------------------------------
(* Properties.                                                             *)

\* the position of a version in semantic-version order, as one number
Rank(v) ==
    ((v[1] * (MaxVerPart + 1) + v[2]) * (MaxVerPart + 1) + v[3]) * (MaxPre + 1)
        + (IF v[4] = 0 THEN MaxPre ELSE v[4] - 1)

\* C1: version_check raises exactly when the manifest version is below cmin or
\* at/above cmax in semantic-version order; a version equal to cmax is rejected
\* and a version equal to cmin (of a non-empty range) is accepted.
C1_VersionGate ==
    vc.called =>
        /\ vc.raised <=> (Rank(vc.v) < Rank(vc.cmin) \/ Rank(vc.v) >= Rank(vc.cmax))
        /\ vc.v = vc.cmax => vc.raised
        /\ (vc.v = vc.cmin /\ Rank(vc.cmin) < Rank(vc.cmax)) => ~vc.raised

C1_Witness ==
    /\ vc.called
    /\ vc.cmin = MANIFEST_COMPATIBILITY[1]
    /\ vc.cmax = MANIFEST_COMPATIBILITY[2]
    /\ vc.v = vc.cmin
    /\ ~vc.raised

\* the API's load_manifest ran (by construction or by the facade's load_manifest)
\* and the cache found the manifest, whose name is last.ret
ApiLoadRan ==
    /\ \/ last.op = "__init__" /\ last.arg # "none"
       \/ last.op = "load_manifest" /\ is_cloud_api
    /\ last.err # "ManifestNotFound"

InvalidManifest ==
    last.err = "RuntimeError"
        /\ last.msg \in {"expected metadata file names", "no metadata file names"}

\* C2: load_manifest fails with the metadata-file-names RuntimeError exactly when
\* the names the loaded manifest declares are not exactly the five expected ones.
C2_ExactCategories ==
    ApiLoadRan =>
        (InvalidManifest <=>
            ManifestDB[last.ret].metadata_file_names
                # {"behavior_sessions", "sessions", "probes", "units", "channels"})

C2_Witness ==
    /\ ApiLoadRan
    /\ last.op = "load_manifest"
    /\ "extra_table" \in ManifestDB[last.ret].metadata_file_names
    /\ InvalidManifest

\* C3: the five tables the API holds were all read from the manifest that is
\* the cache's active manifest.
C3_TablesFromActiveManifest ==
    is_cloud_api => \A t \in expected_metadata : tables[t] = manifest

\* the operation just called made the cache load a manifest and returned, with
\* version checking enabled
LoadedWithGate ==
    /\ last.err = NoErr
    /\ \/ last.op = "__init__" /\ last.arg # "none" /\ last.arg2 = None
       \/ last.op \in {"load_manifest", "load_latest_manifest"} /\ is_cloud_api /\ ~skip

\* C4: with version checking enabled, every operation that makes a manifest the
\* active one (construction, load_manifest, load_latest_manifest) runs
\* version_check exactly once, on that manifest.
C4_GateOncePerLoad ==
    LoadedWithGate =>
        /\ Count(last.events, "version_check") = 1
        /\ \A i \in DOMAIN last.events :
               last.events[i].ev = "version_check" => last.events[i].arg = last.ret


\* the operation just called ran on an API in local-only mode
LocalCall ==
    /\ last.op # "none"
    /\ IF last.op = "__init__" THEN last.arg = "local" ELSE facade = "local"

\* the local path the operation just called had to resolve, when it was one of
\* the API's resolution methods
ExpectedPath ==
    IF last.arg # None THEN MetaPath(manifest, last.arg) ELSE DataPath(last.arg2)

\* C5: in local-only mode nothing is ever downloaded, and resolving a metadata
\* name or data file id whose local path is absent raises FileNotFoundError
\* naming that path.
C5_LocalNeverDownloads ==
    LocalCall =>
        /\ Count(last.events, "cache.download_metadata") = 0
        /\ Count(last.events, "cache.download_data") = 0
        /\ Count(last.events, "s3.download") = 0
        /\ ( /\ \/ last.op \in {"_get_metadata_path", "_get_data_path"}
                \/ last.op = "_get_local_path" /\ ((last.arg = None) # (last.arg2 = None))
             /\ ExpectedPath \in VolatilePaths \ fs )
           => (last.err = "FileNotFoundError" /\ last.path = ExpectedPath)

C5_Witness ==
    /\ facade = "local"
    /\ last.op = "_get_data_path"
    /\ last.err = "FileNotFoundError"
    /\ last.path = "cache/data/99.nwb"

\* C6: _get_local_path with both or neither of fname / file_id raises ValueError
\* before any cache lookup; with exactly one it makes only that one lookup.
C6_ExactlyOneKey ==
    last.op = "_get_local_path" =>
        /\ ((last.arg = None) = (last.arg2 = None)) =>
               (last.err = "ValueError" /\ last.events = <<>>)
        /\ (last.arg # None /\ last.arg2 = None) =>
               (Len(last.events) = 1 /\ last.events[1].ev = "cache.metadata_path"
                    /\ last.events[1].arg = last.arg)
        /\ (last.arg = None /\ last.arg2 # None) =>
               (Len(last.events) = 1 /\ last.events[1].ev = "cache.data_path"
                    /\ last.events[1].arg = last.arg2)

C6_Witness ==
    /\ last.op = "_get_local_path"
    /\ last.arg # None /\ last.arg2 # None
    /\ last.err = "ValueError"
    /\ last.events = <<>>

ResolveCalls == {"cache.data_path", "cache.download_data", "s3.download"}
BuildCalls == {"BehaviorSession.from_nwb_path", "BehaviorEcephysSession.from_nwb_path"}

CountIn(events, names) == Len(SelectSeq(events, LAMBDA e : e.ev \in names))

\* the rows of the tables the API holds, by identifier
EcephysRowsOf(e) ==
    {i \in DOMAIN ecephys_session_table(tables) :
        ecephys_session_table(tables)[i].ecephys_session_id = e}
BehaviorRowsOf(b) ==
    {i \in DOMAIN behavior_session_table(tables) :
        behavior_session_table(tables)[i].behavior_session_id = b}

\* C7: get_ecephys_session(id) raises the row-count RuntimeError whenever the
\* ecephys-session table has zero or several rows for id; then nothing is
\* resolved and no session is built.
C7_EcephysRowCount ==
    \A id \in EcephysIds :
        ( /\ is_cloud_api
          /\ last.op = "get_ecephys_session" /\ last.arg = IntToStr(id)
          /\ Cardinality(EcephysRowsOf(id)) # 1 )
        => /\ last.err = "RuntimeError"
           /\ last.count = Cardinality(EcephysRowsOf(id))
           /\ CountIn(last.events, ResolveCalls \cup BuildCalls) = 0
           /\ last.ret = None

C7_Witness ==
    /\ is_cloud_api
    /\ last.op = "get_ecephys_session"
    /\ Cardinality(EcephysRowsOf(11)) = 2 /\ last.arg = "11"
    /\ last.err = "RuntimeError" /\ last.count = 2

\* C8: get_behavior_session(id) raises the row-count RuntimeError whenever the
\* behavior-session table has zero or several rows for id; then the ecephys
\* table is not consulted and nothing is resolved.
C8_BehaviorRowCount ==
    \A id \in BehaviorIds :
        ( /\ is_cloud_api
          /\ last.op = "get_behavior_session" /\ last.arg = IntToStr(id)
          /\ Cardinality(BehaviorRowsOf(id)) # 1 )
        => /\ last.err = "RuntimeError"
           /\ last.count = Cardinality(BehaviorRowsOf(id))
           /\ Count(last.events, "ecephys_session_table.query") = 0
           /\ CountIn(last.events, ResolveCalls \cup BuildCalls) = 0
           /\ last.ret = None

C8_Witness ==
    /\ is_cloud_api
    /\ last.op = "get_behavior_session"
    /\ BehaviorRowsOf(9) = {} /\ last.arg = "9"
    /\ last.err = "RuntimeError" /\ last.count = 0

\* the file id get_behavior_session(b) must reach: the one of the only ecephys
\* row that the only behavior row of b points to
JoinedEcephysRows(b) ==
    EcephysRowsOf(behavior_session_table(tables)[CHOOSE i \in BehaviorRowsOf(b) : TRUE]
                      .ecephys_session_id)
JoinedFileId(b) ==
    ecephys_session_table(tables)[CHOOSE i \in JoinedEcephysRows(b) : TRUE].file_id

\* C9: when b has exactly one behavior row and its ecephys_session_id exactly one
\* ecephys row with file id f, get_behavior_session(b) resolves exactly the data
\* file f and, once resolved, builds the BehaviorSession from that file's path.
C9_BehaviorJoin ==
    \A b \in BehaviorIds :
        ( /\ is_cloud_api
          /\ last.op = "get_behavior_session" /\ last.arg = IntToStr(b)
          /\ Cardinality(BehaviorRowsOf(b)) = 1
          /\ Cardinality(JoinedEcephysRows(b)) = 1 )
        => LET asked == SelectSeq(last.events,
                           LAMBDA e : e.ev \in {"cache.data_path", "cache.download_data"})
               built == SelectSeq(last.events, LAMBDA e : e.ev \in BuildCalls)
           IN  /\ Len(asked) = 1
               /\ asked[1].arg = IntToStr(JoinedFileId(b))
               /\ last.err \in {NoErr, "FileNotFoundError", "FetchError"}
               /\ last.err # NoErr => built = <<>> /\ last.ret = None
               /\ last.err = NoErr =>
                      /\ built = <<Ev("BehaviorSession.from_nwb_path",
                                      DataPath(IntToStr(JoinedFileId(b))))>>
                      /\ last.path = DataPath(IntToStr(JoinedFileId(b)))
                      /\ last.ret = "BehaviorSession"

C9_Witness ==
    /\ is_cloud_api
    /\ last.op = "get_behavior_session" /\ last.arg = "5"
    /\ Cardinality(BehaviorRowsOf(5)) = 1
    /\ JoinedEcephysRows(5) = EcephysRowsOf(10)
    /\ JoinedFileId(5) = 99
    /\ last.err = NoErr
    /\ last.events[Len(last.events)] =
           Ev("BehaviorSession.from_nwb_path", "cache/data/99.nwb")

\* C10: get_behavior_session(id) raises the row-count RuntimeError when the
\* behavior row's ecephys_session_id has zero or several rows in the
\* ecephys-session table.
C10_JoinRowCount ==
    \A b \in BehaviorIds :
        ( /\ is_cloud_api
          /\ last.op = "get_behavior_session" /\ last.arg = IntToStr(b)
          /\ Cardinality(BehaviorRowsOf(b)) = 1
          /\ Cardinality(JoinedEcephysRows(b)) # 1 )
        => /\ last.err = "RuntimeError"
           /\ last.count = Cardinality(JoinedEcephysRows(b))

-----------------------------------------------------------------------------
(* The facade's manifest-management methods.                               *)

ManifestMethods ==
    {"construct_local_manifest", "compare_manifests", "load_latest_manifest",
     "latest_downloaded_manifest_file", "latest_manifest_file", "load_manifest",
     "list_all_downloaded_manifests", "list_manifest_file_names", "current_manifest"}

LocalRefused ==
    {"compare_manifests", "list_all_downloaded_manifests", "construct_local_manifest"}

Has(parts, x) == \E i \in DOMAIN parts : parts[i] = x

RaisedNotImplemented(type_name) ==
    /\ last.err = "NotImplementedError"
    /\ Has(last.msg, last.op)
    /\ Has(last.msg, type_name)
    /\ last.events = <<>>

DelegatedToCache ==
    /\ last.err # "NotImplementedError"
    /\ last.events = <<Ev("cache." \o last.op, last.arg)>>

\* C11 (as stated): on a facade built by from_local_cache, compare_manifests,
\* list_all_downloaded_manifests and construct_local_manifest each raise
\* NotImplementedError naming the method and the backend type, and nothing is
\* delegated to the cache.
C11_LocalRefuses ==
    (facade = "local" /\ last.op \in LocalRefused) =>
        RaisedNotImplemented("BehaviorEcephysProjectCloudApi")

\* C11 (amended): on a facade built by from_local_cache, compare_manifests,
\* list_all_downloaded_manifests and construct_local_manifest raise no
\* NotImplementedError of the facade and make exactly one call to the cache's
\* member of the same name; the facade refuses them only when its fetch_api is
\* not a BehaviorEcephysProjectCloudApi.
C11_LocalDelegates ==
    /\ (facade = "local" /\ last.op \in LocalRefused) => DelegatedToCache
    /\ (last.op \in LocalRefused /\ last.err = "NotImplementedError") => facade = "none"

C11_Witness ==
    /\ facade = "local"
    /\ last.op = "compare_manifests"
    /\ last.arg = "m1" /\ last.arg2 = "m6"
    /\ DelegatedToCache

\* C12: on a facade whose fetch_api is not a BehaviorEcephysProjectCloudApi (the
\* default None), each of the nine manifest-management methods raises
\* NotImplementedError whose message holds the method's name and the name of the
\* fetch_api's type, and nothing is delegated.
C12_NoCloudApiRefuses ==
    (facade = "none" /\ last.op \in ManifestMethods) => RaisedNotImplemented("NoneType")

C12_Witness ==
    /\ facade = "none"
    /\ last.op = "list_manifest_file_names"
    /\ RaisedNotImplemented("NoneType")

-----------------------------------------------------------------------------
(* The metadata tables and their accessors.                                *)

\* C13: each of the facade's five table accessors returns exactly the table
\* that the backend's accessor of the same name returns.
C13_AccessorReturnsBackendTable ==
    (is_cloud_api /\ last.op \in TableAccessors) =>
        last.ret = api_get_table(last.op, tables)

LoadOps == {"__init__", "load_manifest"}

Reads(events, path) ==
    Len(SelectSeq(events, LAMBDA e : e.ev = "pd.read_csv" /\ e.arg = path))

Resolves(events, fname) ==
    Len(SelectSeq(events, LAMBDA e : e.ev \in {"cache.metadata_path", "cache.download_metadata"}
                                      /\ e.arg = fname))

\* C17 (as stated): a table's file is resolved and read only when its accessor
\* is first called after the manifest was loaded, so a call that is not an
\* accessor call reads no table file.
C17_ReadOnlyInAccessor ==
    last.op \notin TableAccessors => Count(last.events, "pd.read_csv") = 0

C17_ApiLoad ==
    \/ last.op = "load_manifest" /\ is_cloud_api
    \/ last.op = "__init__" /\ last.arg # "none"

\* C17 (amended): each metadata table is materialised by load_manifest itself
\* (the constructor's included), at most once per load and exactly once for
\* each of the five tables when the load succeeds; an accessor call resolves
\* and reads no file, whether it is the first after the load or a later one.
C17_EagerOncePerLoad ==
    /\ last.op \in TableAccessors =>
           /\ Count(last.events, "pd.read_csv") = 0
           /\ \A t \in expected_metadata : Resolves(last.events, t) = 0
    /\ C17_ApiLoad =>
           /\ \A t \in expected_metadata :
                  /\ Resolves(last.events, t) <= 1
                  /\ Reads(last.events, MetaPath(last.ret, t)) <= Resolves(last.events, t)
                  /\ last.err = NoErr =>
                         /\ Resolves(last.events, t) = 1
                         /\ Reads(last.events, MetaPath(last.ret, t)) = 1
           /\ Count(last.events, "pd.read_csv") <= Cardinality(expected_metadata)

C17_Witness ==
    /\ last.op = "get_unit_table"
    /\ is_cloud_api
    /\ last.err = NoErr
    /\ tables["units"] = manifest
    /\ Count(last.events, "pd.read_csv") = 0

-----------------------------------------------------------------------------
(* Session fetches through the facade.                                     *)

SessionOps == {"get_ecephys_session", "get_behavior_session"}

ResolveRequests == {"cache.data_path", "cache.download_data"}

PrimaryQuery ==
    IF last.op = "get_ecephys_session" THEN "ecephys_session_table.query"
    ELSE "behavior_session_table.query"

PrimaryLookups ==
    Len(SelectSeq(last.events, LAMBDA e : e.ev = PrimaryQuery /\ e.arg = last.arg))

C15_AttemptedFetchTriesTimes ==
    (facade = "s3" /\ last.op \in SessionOps /\ last.err = "FetchError") =>
        Count(last.events, "s3.download") = fetch_tries

Stage(e) ==
    CASE e.ev = "fetch_session" -> 0
      [] e.ev \in {"ecephys_session_table.query", "behavior_session_table.query"} -> 1
      [] e.ev \in ResolveCalls -> 2
      [] e.ev \in BuildCalls -> 3
      [] OTHER -> 4

ResolvedFileId ==
    IF last.op = "get_ecephys_session"
    THEN {ecephys_session_table(tables)[i].file_id :
              i \in {j \in DOMAIN ecephys_session_table(tables) :
                         IntToStr(ecephys_session_table(tables)[j].ecephys_session_id) = last.arg}}
    ELSE {ecephys_session_table(tables)[i].file_id :
              i \in {j \in DOMAIN ecephys_session_table(tables) :
                         \E k \in DOMAIN behavior_session_table(tables) :
                             /\ IntToStr(behavior_session_table(tables)[k].behavior_session_id) = last.arg
                             /\ behavior_session_table(tables)[k].ecephys_session_id =
                                    ecephys_session_table(tables)[j].ecephys_session_id}}

\* C18: a session fetch runs REQUESTED, ROW_LOOKUP, FILE_RESOLVE, CONSTRUCTED
\* in that order: the file is resolved only after the lookup found one row,
\* from_nwb_path is called last, only after the resolution returned a path and
\* with that path, and a failure at ROW_LOOKUP or FILE_RESOLVE ends the fetch:
\* the error reaches the caller, no later stage runs and nothing is returned.
C18_FetchStages ==
    (is_cloud_api /\ last.op \in SessionOps) =>
        LET ev == last.events IN
        /\ Len(ev) >= 2 /\ Stage(ev[1]) = 0 /\ Stage(ev[2]) = 1
        /\ \A i \in 1..(Len(ev) - 1) :
               /\ Stage(ev[i]) <= Stage(ev[i + 1])
               /\ Stage(ev[i + 1]) <= Stage(ev[i]) + 1
        /\ CountIn(ev, ResolveCalls) > 0 =>
               /\ PrimaryLookups = 1
               /\ Cardinality(ResolvedFileId) = 1
        /\ CountIn(ev, BuildCalls) > 0 =>
               /\ last.err = NoErr
               /\ Stage(ev[Len(ev)]) = 3
               /\ ev[Len(ev)].arg = last.path
               /\ last.path \in {DataPath(IntToStr(f)) : f \in ResolvedFileId}
               /\ OnDisk(last.path, fs)
        /\ last.err # NoErr =>
               /\ CountIn(ev, BuildCalls) = 0
               /\ last.ret = None
               /\ (last.err \in {"RuntimeError", "TypeError"}) => CountIn(ev, ResolveCalls) = 0
        /\ last.err = NoErr => Stage(ev[Len(ev)]) = 3

C18_Witness ==
    /\ facade = "s3"
    /\ last.op = "get_ecephys_session"
    /\ last.err = NoErr
    /\ Len(last.events) = 5
    /\ Count(last.events, "s3.download") = 1
    /\ last.events[5] = Ev("BehaviorEcephysSession.from_nwb_path", last.path)

\* C19: no result of an earlier session fetch is reused: a get_ecephys_session
\* call that returns has resolved the file and built the object in that call,
\* and in local-only mode the call fails with FileNotFoundError exactly when the
\* file of the id's row is absent when the call is made.
C19_NoReuse ==
    (is_cloud_api /\ last.op = "get_ecephys_session") =>
        /\ last.err = NoErr =>
               /\ CountIn(last.events, ResolveRequests) = 1
               /\ CountIn(last.events, BuildCalls) = 1
        /\ (facade = "local" /\ Cardinality(ResolvedFileId) = 1) =>
               \A f \in ResolvedFileId :
                   /\ (last.err = "FileNotFoundError") <=> ~OnDisk(DataPath(IntToStr(f)), fs)
                   /\ (last.err = NoErr) <=> OnDisk(DataPath(IntToStr(f)), fs)

C19_Witness ==
    /\ facade = "local"
    /\ last.op = "get_ecephys_session"
    /\ last.err = "FileNotFoundError"
    /\ Cardinality(ResolvedFileId) = 1
    /\ \A f \in ResolvedFileId : DataPath(IntToStr(f)) \in VolatilePaths \ fs

-----------------------------------------------------------------------------
(* Resolving a metadata name twice.                                        *)

SecondResolution ==
    /\ facade = "s3"
    /\ last.op = "_get_metadata_path"
    /\ last.arg = "sessions"
    /\ last.prev # NoPrev
    /\ last.prev.err = NoErr

\* C16: in cloud-backed mode, when "sessions" is resolved twice under the same
\* active manifest with nothing invalidating the cache in between, the second
\* resolution returns the local path the first returned and downloads nothing,
\* so the two together download the remote object at most once.
C16_ResolveTwice ==
    SecondResolution =>
        /\ last.err = NoErr
        /\ last.path = last.prev.path
        /\ last.path = MetaPath(manifest, "sessions")
        /\ Count(last.events, "s3.download") = 0
        /\ last.prev.downloads + Count(last.events, "s3.download") <= 1

C16_Witness ==
    /\ SecondResolution
    /\ manifest = "m6"
    /\ last.prev.downloads = 1
    /\ last.path = SessionsPath
    /\ Count(last.events, "s3.download") = 0

-----------------------------------------------------------------------------
(* The death-date filter.                                                  *)

Alive(row) == row.date_of_acquisition <= dd.death_df[row.mouse_id]

SessionIds(df) == [i \in DOMAIN df |-> df[i].session_id]

\* C20: _filter_on_death_date returns exactly the behavior-session rows whose
\* date_of_acquisition is not later than the death_on date of the row's
\* mouse_id; the rows kept are unchanged and in their original relative order.
\* On the frame of test_filter_on_death_date that is sessions 1, 2, 4 and 5.
C20_DeathDateFilter ==
    dd.called =>
        LET df == dd.behavior_session_df
            out == dd.out
        IN  /\ \A j \in DOMAIN out : \E i \in DOMAIN df : out[j] = df[i] /\ Alive(df[i])
            /\ \A i \in DOMAIN df : Alive(df[i]) => \E j \in DOMAIN out : out[j] = df[i]
            /\ Len(out) = Cardinality({i \in DOMAIN df : Alive(df[i])})
            /\ \A j \in 1..(Len(out) - 1) : out[j].session_id < out[j + 1].session_id
            /\ (df = TestSessions /\ dd.death_df = TestDeaths) =>
                   SessionIds(out) = <<1, 2, 4, 5>>

C20_Witness ==
    /\ dd.called
    /\ Len(dd.behavior_session_df) = MaxRows
    /\ Len(dd.out) = 2
    /\ \E i \in DOMAIN dd.behavior_session_df :
           /\ dd.behavior_session_df[i].date_of_acquisition =
                  dd.death_df[dd.behavior_session_df[i].mouse_id]
           /\ \E j \in DOMAIN dd.out : dd.out[j] = dd.behavior_session_df[i]
    /\ dd.out[1] = dd.behavior_session_df[1]
    /\ dd.out[2] = dd.behavior_session_df[3]

-----------------------------------------------------------------------------
(* Loading a manifest: what a failed load leaves behind, and the order of  *)
(* the steps of a load.                                                    *)

\* the API's load_manifest ran, by construction or by the facade's load_manifest
LoadCall ==
    \/ last.op = "__init__" /\ last.arg # "none"
    \/ last.op = "load_manifest" /\ is_cloud_api

\* skip_version_check of the API whose load_manifest ran
SkippedGate ==
    IF last.op = "__init__" THEN last.arg2 = "skip_version_check" ELSE skip

CategoriesOk(m) ==
    ManifestDB[m].metadata_file_names
        = {"behavior_sessions", "sessions", "probes", "units", "channels"}

VersionInRange(m) ==
    /\ Rank(MANIFEST_COMPATIBILITY[1]) <= Rank(ManifestDB[m].version)
    /\ Rank(ManifestDB[m].version) < Rank(MANIFEST_COMPATIBILITY[2])

LoadFailures == {"ManifestNotFound", "RuntimeError", "BehaviorCloudCacheVersionException"}

\* C26: a load_manifest call that fails because the name is unknown, the
\* category set differs or the version gate rejects leaves the cache's active
\* manifest and the five tables as they were before the call.
C26_FailedLoadChangesNothing ==
    [][ (last'.op = "load_manifest" /\ is_cloud_api /\ last'.err \in LoadFailures)
            => (manifest' = manifest /\ tables' = tables) ]_vars

\* C27: with version checking enabled, get_ecephys_session and
\* get_behavior_session resolve a data file only while the active manifest has
\* passed the five-category validation and the version gate.
C27_ResolveOnlyUnderCheckedManifest ==
    (is_cloud_api /\ ~skip /\ last.op \in SessionOps
         /\ CountIn(last.events, ResolveRequests) > 0)
        => (CategoriesOk(manifest) /\ VersionInRange(manifest))

FileFailures == {"FileNotFoundError", "FetchError"}

\* C28: with version checking enabled, load_manifest of a manifest that declares
\* exactly the five categories and whose files all resolve succeeds exactly when
\* cmin <= manifest version < cmax, whatever its data-pipeline list holds.
C28_SucceedsIffInRange ==
    ( /\ LoadCall /\ ~SkippedGate
      /\ last.err # "ManifestNotFound"
      /\ CategoriesOk(last.ret)
      /\ last.err \notin FileFailures )
        => (last.err = NoErr <=> VersionInRange(last.ret))

LoadStage(e) ==
    CASE e.ev \in {"cache.load_manifest", "cache.load_last_manifest"} -> 0
      [] e.ev = "version_check" -> 1
      [] OTHER -> 2

\* C29: within one load_manifest call the active manifest is switched first,
\* then the category set is validated, then the version gate runs, then the
\* tables are loaded: a manifest failing both checks reports the category
\* error without the gate having run, and no metadata file of a manifest is
\* resolved unless the category check and the gate (when it is not skipped)
\* passed.
C29_LoadOrder ==
    LoadCall =>
        LET ev == last.events IN
        /\ Len(ev) >= 1 /\ LoadStage(ev[1]) = 0
        /\ \A i \in 1..(Len(ev) - 1) : LoadStage(ev[i]) <= LoadStage(ev[i + 1])
        /\ Count(ev, "cache.load_manifest") + Count(ev, "cache.load_last_manifest") = 1
        /\ (last.op = "load_manifest" /\ last.err # "ManifestNotFound") =>
               (manifest = last.arg /\ last.ret = last.arg)
        /\ last.err # "ManifestNotFound" =>
               /\ ~CategoriesOk(last.ret) =>
                      (InvalidManifest /\ Count(ev, "version_check") = 0)
               /\ (\E i \in DOMAIN ev : LoadStage(ev[i]) = 2) =>
                      /\ CategoriesOk(last.ret)
                      /\ SkippedGate \/ VersionInRange(last.ret)
                      /\ SkippedGate \/ Count(ev, "version_check") = 1

C29_Witness ==
    /\ LoadCall /\ ~SkippedGate
    /\ last.op = "load_manifest"
    /\ ~CategoriesOk(last.ret) /\ ~VersionInRange(last.ret)
    /\ InvalidManifest
    /\ Count(last.events, "version_check") = 0

\* C30: with skip_version_check true, load_manifest never calls version_check
\* and its outcome does not depend on the manifest's version or data-pipeline
\* list: it fails only for an unknown name, a wrong category set or a file that
\* cannot be resolved; the five-category validation still runs.
C30_SkipGate ==
    (LoadCall /\ SkippedGate) =>
        /\ Count(last.events, "version_check") = 0
        /\ last.err \notin {"BehaviorCloudCacheVersionException", "IndexError"}
        /\ last.err # "ManifestNotFound" =>
               /\ InvalidManifest <=> ~CategoriesOk(last.ret)
               /\ last.err = NoErr <=>
                      (CategoriesOk(last.ret) /\ last.err \notin FileFailures)

C30_Witness ==
    /\ LoadCall /\ SkippedGate
    /\ last.op = "load_manifest"
    /\ last.err = NoErr
    /\ ~VersionInRange(last.ret)
    /\ sdk_entries(manifest) # <<>>

-----------------------------------------------------------------------------
(* OphysTimestamps.from_sync_file.  A timestamp is written in tenths of a  *)
(* second, so the array [.1, .2, .3] is <<1, 2, 3>>.                       *)

MaxFrames == 4
MaxGroup == 3

\* sync_file.data['ophys_frames']: the arrays of the tests and their neighbours
OphysFrames == {[i \in 1..n |-> i] : n \in 0..MaxFrames}

NumberOfFrames == 0..(MaxFrames + 1)

\* group_count and plane_group: not given, or a plane of a group of planes
Multiplane ==
    {{}} \cup UNION {{{[group_count |-> g, plane_group |-> p]} : p \in 0..(g - 1)} :
                         g \in 2..MaxGroup}

\* timestamps[plane_group::group_count]
Stride(timestamps, plane_group, group_count) ==
    [i \in 1..((Len(timestamps) - plane_group + group_count - 1) \div group_count)
        |-> timestamps[plane_group + (i - 1) * group_count + 1]]

\* faulty variant of from_sync_file: surplus timestamps are kept
from_sync_file_notrunc(ophys_frames, number_of_frames, multiplane) ==
    LET timestamps ==
            IF multiplane = {} THEN ophys_frames
            ELSE LET mp == CHOOSE x \in multiplane : TRUE
                 IN  Stride(ophys_frames, mp.plane_group, mp.group_count)
    IN  IF Len(timestamps) < number_of_frames
        THEN [err |-> "RuntimeError", value |-> <<>>]
        ELSE [err |-> NoErr, value |-> timestamps]

\* faulty variant of from_sync_file: every plane gets the timestamps of plane 0
from_sync_file_plane0(ophys_frames, number_of_frames, multiplane) ==
    LET timestamps ==
            IF multiplane = {} THEN ophys_frames
            ELSE LET mp == CHOOSE x \in multiplane : TRUE
                 IN  Stride(ophys_frames, 0, mp.group_count)
    IN  IF Len(timestamps) < number_of_frames
        THEN [err |-> "RuntimeError", value |-> <<>>]
        ELSE [err |-> NoErr, value |-> SubSeq(timestamps, 1, number_of_frames)]

from_sync_file(ophys_frames, number_of_frames, multiplane) ==
    LET timestamps ==
            IF multiplane = {} THEN ophys_frames
            ELSE LET mp == CHOOSE x \in multiplane : TRUE
                 IN  Stride(ophys_frames, mp.plane_group, mp.group_count)
    IN  IF Len(timestamps) < number_of_frames
        THEN [err |-> "RuntimeError", value |-> <<>>]
        ELSE [err |-> NoErr, value |-> SubSeq(timestamps, 1, number_of_frames)]

InitOT ==
    /\ pf \in [fn : {"from_sync_file"}, called : {FALSE},
               ophys_frames : OphysFrames, number_of_frames : NumberOfFrames,
               multiplane : Multiplane]
    /\ dd = DdIdle
    /\ cache = None
    /\ vc = VcIdle
    /\ published = NumManifests - 1
    /\ facade = "absent"
    /\ skip = FALSE
    /\ manifest = NoManifest
    /\ tables = UnsetTables
    /\ fs = AllVolatilePaths
    /\ net = TRUE
    /\ last = Idle
    /\ fetch_tries = DefaultFetchTries

FromSyncFile ==
    /\ pf.fn = "from_sync_file" /\ ~pf.called
    /\ pf' = [fn |-> pf.fn, called |-> TRUE, ophys_frames |-> pf.ophys_frames,
              number_of_frames |-> pf.number_of_frames, multiplane |-> pf.multiplane,
              out |-> from_sync_file(pf.ophys_frames, pf.number_of_frames,
                                     pf.multiplane)]
    /\ UNCHANGED <<cache, dd, vc, published, facade, skip, manifest, tables, fs, net, last, fetch_tries>>

NextOT == FromSyncFile

SpecOT == InitOT /\ [][NextOT]_vars

SyncFileCalled == pf.fn = "from_sync_file" /\ pf.called

\* C21: OphysTimestamps.from_sync_file on a sync file with n ophys-frame
\* timestamps and number_of_frames = k raises RuntimeError when n < k, and
\* otherwise returns exactly the first k timestamps.
C21_ValidateAgainstFrames ==
    (SyncFileCalled /\ pf.multiplane = {}) =>
        IF Len(pf.ophys_frames) < pf.number_of_frames
        THEN pf.out.err = "RuntimeError"
        ELSE /\ pf.out.err = NoErr
             /\ Len(pf.out.value) = pf.number_of_frames
             /\ \A i \in 1..pf.number_of_frames : pf.out.value[i] = pf.ophys_frames[i]

\* test_too_long: three timestamps, two frames
C21_Witness ==
    /\ SyncFileCalled /\ pf.multiplane = {}
    /\ pf.ophys_frames = <<1, 2, 3>> /\ pf.number_of_frames = 2
    /\ pf.out = [err |-> NoErr, value |-> <<1, 2>>]

\* the 0-based positions p, p+g, p+2g, ... below n, in order
PlanePositions(n, g, p) == {j \in 0..(n - 1) : j >= p /\ (j - p) % g = 0}

\* C22: with group_count = g > 1 and plane_group = p, from_sync_file takes the
\* timestamps at positions p, p+g, p+2g, ... and validates those against
\* number_of_frames: RuntimeError when they are fewer, else the first
\* number_of_frames of them.
C22_MultiplaneStride ==
    (SyncFileCalled /\ pf.multiplane # {}) =>
        \A mp \in pf.multiplane :
            LET pos == PlanePositions(Len(pf.ophys_frames), mp.group_count,
                                      mp.plane_group)
            IN  IF Cardinality(pos) < pf.number_of_frames
                THEN pf.out.err = "RuntimeError"
                ELSE /\ pf.out.err = NoErr
                     /\ Len(pf.out.value) = pf.number_of_frames
                     /\ \A i \in 1..pf.number_of_frames :
                            /\ mp.plane_group + (i - 1) * mp.group_count \in pos
                            /\ pf.out.value[i] =
                                   pf.ophys_frames[mp.plane_group
                                                   + (i - 1) * mp.group_count + 1]

\* test_multiplane, and the other plane of the same file
C22_Witness ==
    /\ SyncFileCalled
    /\ pf.ophys_frames = <<1, 2, 3, 4>> /\ pf.number_of_frames = 2
    /\ pf.multiplane = {[group_count |-> 2, plane_group |-> 1]}
    /\ pf.out = [err |-> NoErr, value |-> <<2, 4>>]

-----------------------------------------------------------------------------
(* Presentations._fill_missing_values_for_omitted_flashes.  Times are      *)
(* written in hundredths of the table's unit, so 0.25 is 25 and the start  *)
(* time 250 is 25000; a missing value (None) is the empty set and a value  *)
(* v is {v}.                                                               *)

MaxPresentations == 2

OmittedDuration == 25

PresentationRows ==
    [omitted : BOOLEAN, start_time : {0, 25000},
     stop_time : {{}, {134050900}}, duration : {{}, {134025900}},
     start_frame : {231060}]

PresentationTables ==
    UNION {[1..n -> PresentationRows] : n \in 0..MaxPresentations}

\* faulty variant: every row with a missing stop time is filled
_fill_missing_values_for_omitted_flashes_missing(df) ==
    [i \in DOMAIN df |->
        IF df[i].stop_time = {}
        THEN [df[i] EXCEPT !.stop_time = {df[i].start_time + OmittedDuration},
                           !.duration = {OmittedDuration}]
        ELSE df[i]]

_fill_missing_values_for_omitted_flashes(df) ==
    [i \in DOMAIN df |->
        IF df[i].omitted
        THEN [df[i] EXCEPT !.stop_time = {df[i].start_time + OmittedDuration},
                           !.duration = {OmittedDuration}]
        ELSE df[i]]

InitOF ==
    /\ pf \in [fn : {"_fill_missing_values_for_omitted_flashes"}, called : {FALSE},
               df : PresentationTables]
    /\ dd = DdIdle
    /\ cache = None
    /\ vc = VcIdle
    /\ published = NumManifests - 1
    /\ facade = "absent"
    /\ skip = FALSE
    /\ manifest = NoManifest
    /\ tables = UnsetTables
    /\ fs = AllVolatilePaths
    /\ net = TRUE
    /\ last = Idle
    /\ fetch_tries = DefaultFetchTries

FillOmitted ==
    /\ pf.fn = "_fill_missing_values_for_omitted_flashes" /\ ~pf.called
    /\ pf' = [fn |-> pf.fn, called |-> TRUE, df |-> pf.df,
              out |-> _fill_missing_values_for_omitted_flashes(pf.df)]
    /\ UNCHANGED <<cache, dd, vc, published, facade, skip, manifest, tables, fs, net, last, fetch_tries>>

NextOF == FillOmitted

SpecOF == InitOF /\ [][NextOF]_vars

FillCalled == pf.fn = "_fill_missing_values_for_omitted_flashes" /\ pf.called

\* C23: _fill_missing_values_for_omitted_flashes gives every omitted row the
\* duration 0.25 and the stop time start_time + 0.25, and changes nothing else:
\* the other rows and the other columns are as in the input.
C23_OmittedRowsFilled ==
    FillCalled =>
        /\ Len(pf.out) = Len(pf.df)
        /\ \A i \in 1..Len(pf.df) :
               /\ pf.out[i].omitted = pf.df[i].omitted
               /\ pf.out[i].start_time = pf.df[i].start_time
               /\ pf.out[i].start_frame = pf.df[i].start_frame
               /\ IF pf.df[i].omitted
                  THEN /\ pf.out[i].duration = {25}
                       /\ pf.out[i].stop_time = {pf.df[i].start_time + 25}
                  ELSE /\ pf.out[i].duration = pf.df[i].duration
                       /\ pf.out[i].stop_time = pf.df[i].stop_time

\* the table of test_set_omitted_stop_time
C23_Witness ==
    /\ FillCalled
    /\ Len(pf.df) = 2
    /\ pf.df[1].omitted /\ pf.df[1].start_time = 0
    /\ pf.df[1].stop_time = {} /\ pf.df[1].duration = {}
    /\ ~pf.df[2].omitted /\ pf.df[2].start_time = 25000
    /\ pf.df[2].stop_time = {134050900} /\ pf.df[2].duration = {134025900}
    /\ pf.out[1].stop_time = {25} /\ pf.out[1].duration = {25}
    /\ pf.out[2] = pf.df[2]

-----------------------------------------------------------------------------
(* Probes.get_units_table.  A Probes object holds two probes; a metric is  *)
(* a small natural number; an optional argument is the empty set when it   *)
(* is not supplied (None) and {v} when v is supplied; a missing structure  *)
(* id (NaN) is the empty set.                                              *)

MaxMetric == 1

Metrics == 0..MaxMetric

\* the channels of the two probes: channel 1 is valid and in the brain,
\* channel 2 is valid with no structure id, channel 3 is not valid
ProbeChannels ==
    << <<[id |-> 1, valid_data |-> TRUE, structure_id |-> {8}],
         [id |-> 2, valid_data |-> TRUE, structure_id |-> {}]>>,
       <<[id |-> 3, valid_data |-> FALSE, structure_id |-> {8}]>> >>

\* the rows a probe's units_table can hold: a probe has no unit or one unit
\* whose peak channel is one of the probe's channels; the unit of the second
\* probe, whose only channel is not valid, is a good one
UnitRows(probe) ==
    [id : {probe}, amplitude_cutoff : Metrics, presence_ratio : Metrics,
     isi_violations : Metrics,
     quality : IF probe = 1 THEN {"good", "noise"} ELSE {"good"},
     peak_channel_id : {ProbeChannels[probe][i].id : i \in DOMAIN ProbeChannels[probe]}]

UnitsTables(probe) == {<<>>} \cup {<<u>> : u \in UnitRows(probe)}

OptionalBounds == {{}} \cup {{v} : v \in Metrics}

StructureColumns == {{"ecephys_structure_id"}, {"manual_structure_id"}, {}}

_get_structure_key(columns) ==
    IF "ecephys_structure_id" \in columns
    THEN [err |-> NoErr, key |-> "ecephys_structure_id"]
    ELSE IF "manual_structure_id" \in columns
    THEN [err |-> NoErr, key |-> "manual_structure_id"]
    ELSE [err |-> "RuntimeError", key |-> None]

\* Channels.to_dataframe(filter_by_validity)
channels_to_dataframe(channels, filter_by_validity) ==
    LET valid(c) == ~filter_by_validity \/ c.valid_data
    IN  SelectSeq(channels, valid)

\* `x or np.inf` and `x or -np.inf`: the finite bound, if there is one
or_inf(x) == IF x = {} \/ x = {0} THEN {} ELSE x

drop_quality(u) ==
    [id |-> u.id, amplitude_cutoff |-> u.amplitude_cutoff,
     presence_ratio |-> u.presence_ratio, isi_violations |-> u.isi_violations,
     peak_channel_id |-> u.peak_channel_id]

\* faulty variant of get_units_table: the quality of a unit is not looked at
get_units_table_anyquality(probes, columns, filter_by_validity, filter_out_of_brain_units, amplitude_cutoff_maximum, presence_ratio_minimum, isi_violations_maximum) ==
    LET units_table == probes[1] \o probes[2]
        channels == channels_to_dataframe(ProbeChannels[1], filter_by_validity)
                        \o channels_to_dataframe(ProbeChannels[2], filter_by_validity)
        structure_key == _get_structure_key(columns)
        in_brain(c) == ~filter_out_of_brain_units \/ c.structure_id # {}
        channel_ids == {SelectSeq(channels, in_brain)[i].id :
                            i \in DOMAIN SelectSeq(channels, in_brain)}
        on_channel(u) ==
            (filter_by_validity \/ filter_out_of_brain_units)
                => u.peak_channel_id \in channel_ids
        good(u) == TRUE
        in_bounds(u) ==
            /\ \A b \in or_inf(amplitude_cutoff_maximum) : u.amplitude_cutoff <= b
            /\ \A b \in or_inf(presence_ratio_minimum) : u.presence_ratio >= b
            /\ \A b \in or_inf(isi_violations_maximum) : u.isi_violations <= b
        kept == SelectSeq(SelectSeq(SelectSeq(units_table, on_channel), good),
                          in_bounds)
    IN  IF (filter_by_validity \/ filter_out_of_brain_units)
            /\ structure_key.err # NoErr
        THEN [err |-> structure_key.err, table |-> <<>>]
        ELSE [err |-> NoErr,
              table |-> IF filter_by_validity
                        THEN [i \in DOMAIN kept |-> drop_quality(kept[i])]
                        ELSE kept]

get_units_table(probes, columns, filter_by_validity, filter_out_of_brain_units, amplitude_cutoff_maximum, presence_ratio_minimum, isi_violations_maximum) ==
    LET units_table == probes[1] \o probes[2]
        channels == channels_to_dataframe(ProbeChannels[1], filter_by_validity)
                        \o channels_to_dataframe(ProbeChannels[2], filter_by_validity)
        structure_key == _get_structure_key(columns)
        in_brain(c) == ~filter_out_of_brain_units \/ c.structure_id # {}
        channel_ids == {SelectSeq(channels, in_brain)[i].id :
                            i \in DOMAIN SelectSeq(channels, in_brain)}
        on_channel(u) ==
            (filter_by_validity \/ filter_out_of_brain_units)
                => u.peak_channel_id \in channel_ids
        good(u) == filter_by_validity => u.quality = "good"
        in_bounds(u) ==
            /\ \A b \in or_inf(amplitude_cutoff_maximum) : u.amplitude_cutoff <= b
            /\ \A b \in or_inf(presence_ratio_minimum) : u.presence_ratio >= b
            /\ \A b \in or_inf(isi_violations_maximum) : u.isi_violations <= b
        kept == SelectSeq(SelectSeq(SelectSeq(units_table, on_channel), good),
                          in_bounds)
    IN  IF (filter_by_validity \/ filter_out_of_brain_units)
            /\ structure_key.err # NoErr
        THEN [err |-> structure_key.err, table |-> <<>>]
        ELSE [err |-> NoErr,
              table |-> IF filter_by_validity
                        THEN [i \in DOMAIN kept |-> drop_quality(kept[i])]
                        ELSE kept]

InitUT ==
    /\ pf \in [fn : {"get_units_table"}, called : {FALSE},
               probes : {<<a, b>> : a \in UnitsTables(1), b \in UnitsTables(2)},
               columns : StructureColumns,
               filter_by_validity : BOOLEAN, filter_out_of_brain_units : BOOLEAN,
               amplitude_cutoff_maximum : OptionalBounds,
               presence_ratio_minimum : OptionalBounds,
               isi_violations_maximum : OptionalBounds]
    /\ dd = DdIdle
    /\ cache = None
    /\ vc = VcIdle
    /\ published = NumManifests - 1
    /\ facade = "absent"
    /\ skip = FALSE
    /\ manifest = NoManifest
    /\ tables = UnsetTables
    /\ fs = AllVolatilePaths
    /\ net = TRUE
    /\ last = Idle
    /\ fetch_tries = DefaultFetchTries

GetUnitsTable ==
    /\ pf.fn = "get_units_table" /\ ~pf.called
    /\ pf' = [pf EXCEPT !.called = TRUE] @@
             [out |-> get_units_table(pf.probes, pf.columns, pf.filter_by_validity,
                                      pf.filter_out_of_brain_units,
                                      pf.amplitude_cutoff_maximum,
                                      pf.presence_ratio_minimum,
                                      pf.isi_violations_maximum)]
    /\ UNCHANGED <<cache, dd, vc, published, facade, skip, manifest, tables, fs, net, last, fetch_tries>>

NextUT == GetUnitsTable

SpecUT == InitUT /\ [][NextUT]_vars

\* C24: get_units_table honours every supplied bound: no returned unit has an
\* amplitude_cutoff above a supplied amplitude_cutoff_maximum (0 included), an
\* isi_violations above a supplied isi_violations_maximum (0 included), or a
\* presence_ratio below a supplied presence_ratio_minimum.
C24_SuppliedBoundsHonoured ==
    (pf.fn = "get_units_table" /\ pf.called) =>
        \A i \in DOMAIN pf.out.table :
            /\ \A b \in pf.amplitude_cutoff_maximum :
                   pf.out.table[i].amplitude_cutoff <= b
            /\ \A b \in pf.isi_violations_maximum :
                   pf.out.table[i].isi_violations <= b
            /\ \A b \in pf.presence_ratio_minimum :
                   pf.out.table[i].presence_ratio >= b

-----------------------------------------------------------------------------
(* Probes.from_json.  A probe dictionary is its name and its position in   *)
(* the list handed in; skip_probes is the empty set when it is not given.  *)

MaxProbes == 3
MaxSkip == 2

ProbeNames == <<"probeA", "probeB", "probeC">>

NameSet == {ProbeNames[i] : i \in DOMAIN ProbeNames}

\* the position of a name in the order of the strings
NameOrder(name) == CHOOSE i \in DOMAIN ProbeNames : ProbeNames[i] = name

ProbeDicts ==
    {p \in UNION {[1..n -> [name : NameSet, pos : 1..MaxProbes]] : n \in 0..MaxProbes} :
        \A i \in DOMAIN p : p[i].pos = i}

SkipProbes ==
    {{}} \cup {{sk} : sk \in UNION {[1..n -> NameSet] : n \in 0..MaxSkip}}

RECURSIVE sorted(_)
\* sorted(probes, key=lambda probe: probe['name']): a stable insertion sort
sorted(probes) ==
    IF probes = <<>> THEN <<>>
    ELSE LET rest == sorted(SubSeq(probes, 1, Len(probes) - 1))
             x == probes[Len(probes)]
             before(p) == NameOrder(p.name) <= NameOrder(x.name)
             after(p) == NameOrder(p.name) > NameOrder(x.name)
         IN  SelectSeq(rest, before) \o <<x>> \o SelectSeq(rest, after)

\* Probe.from_json(probe=probe)
Probe_from_json(probe) == [name |-> probe.name, json |-> probe.pos]

\* faulty variant of from_json: names to skip that match no probe are ignored
from_json_lenient(probes, skip_probes) ==
    LET skip_list == IF skip_probes # {} THEN CHOOSE x \in skip_probes : TRUE ELSE <<>>
        skipped == {skip_list[i] : i \in DOMAIN skip_list}
        keep(p) == p.name \notin skipped
        kept == sorted(SelectSeq(probes, keep))
    IN  [err |-> NoErr,
         probes |-> [i \in DOMAIN kept |-> Probe_from_json(kept[i])],
         constructed |-> Len(kept)]

\* faulty variant of from_json: the probes keep the order of the input list
from_json_unsorted(probes, skip_probes) ==
    LET skip_list == IF skip_probes # {} THEN CHOOSE x \in skip_probes : TRUE ELSE <<>>
        skipped == {skip_list[i] : i \in DOMAIN skip_list}
        invalid_skip_probes == skipped \ {probes[i].name : i \in DOMAIN probes}
        keep(p) == p.name \notin skipped
        kept == SelectSeq(probes, keep)
    IN  IF invalid_skip_probes # {}
        THEN [err |-> "ValueError", probes |-> <<>>, constructed |-> 0]
        ELSE [err |-> NoErr,
              probes |-> [i \in DOMAIN kept |-> Probe_from_json(kept[i])],
              constructed |-> Len(kept)]

from_json(probes, skip_probes) ==
    LET skip_list == IF skip_probes # {} THEN CHOOSE x \in skip_probes : TRUE ELSE <<>>
        skipped == {skip_list[i] : i \in DOMAIN skip_list}
        invalid_skip_probes == skipped \ {probes[i].name : i \in DOMAIN probes}
        keep(p) == p.name \notin skipped
        kept == sorted(SelectSeq(probes, keep))
    IN  IF invalid_skip_probes # {}
        THEN [err |-> "ValueError", probes |-> <<>>, constructed |-> 0]
        ELSE [err |-> NoErr,
              probes |-> [i \in DOMAIN kept |-> Probe_from_json(kept[i])],
              constructed |-> Len(kept)]

InitPJ ==
    /\ pf \in [fn : {"from_json"}, called : {FALSE},
               probes : ProbeDicts, skip_probes : SkipProbes]
    /\ dd = DdIdle
    /\ cache = None
    /\ vc = VcIdle
    /\ published = NumManifests - 1
    /\ facade = "absent"
    /\ skip = FALSE
    /\ manifest = NoManifest
    /\ tables = UnsetTables
    /\ fs = AllVolatilePaths
    /\ net = TRUE
    /\ last = Idle
    /\ fetch_tries = DefaultFetchTries

FromJson ==
    /\ pf.fn = "from_json" /\ ~pf.called
    /\ pf' = [pf EXCEPT !.called = TRUE] @@
             [out |-> from_json(pf.probes, pf.skip_probes)]
    /\ UNCHANGED <<cache, dd, vc, published, facade, skip, manifest, tables, fs, net, last, fetch_tries>>

NextPJ == FromJson

SpecPJ == InitPJ /\ [][NextPJ]_vars

FromJsonCalled == pf.fn = "from_json" /\ pf.called

\* the names handed in as skip_probes
SkipNames == UNION {{sk[i] : i \in DOMAIN sk} : sk \in pf.skip_probes}

\* C25: from_json raises ValueError and constructs no Probe whenever
\* skip_probes names a probe that is not among the supplied ones; otherwise the
\* Probes object holds exactly the supplied probes whose name is not in
\* skip_probes, each once.
C25_SkipProbes ==
    FromJsonCalled =>
        IF \E n \in SkipNames : \A i \in DOMAIN pf.probes : pf.probes[i].name # n
        THEN /\ pf.out.err = "ValueError"
             /\ pf.out.constructed = 0
             /\ pf.out.probes = <<>>
        ELSE /\ pf.out.err = NoErr
             /\ {pf.out.probes[i].json : i \in DOMAIN pf.out.probes}
                    = {i \in DOMAIN pf.probes : pf.probes[i].name \notin SkipNames}
             /\ \A i, j \in DOMAIN pf.out.probes :
                    pf.out.probes[i].json = pf.out.probes[j].json => i = j
             /\ \A i \in DOMAIN pf.out.probes :
                    pf.out.probes[i].name = pf.probes[pf.out.probes[i].json].name
             /\ pf.out.constructed = Len(pf.out.probes)

C25_WitnessInvalidSkip ==
    /\ FromJsonCalled
    /\ Len(pf.probes) = 2
    /\ pf.skip_probes = {<<"probeA", "probeC">>}
    /\ "probeA" \in {pf.probes[i].name : i \in DOMAIN pf.probes}
    /\ "probeC" \notin {pf.probes[i].name : i \in DOMAIN pf.probes}
    /\ pf.out.err = "ValueError"

C25_Witness ==
    /\ FromJsonCalled
    /\ pf.probes = <<[name |-> "probeC", pos |-> 1], [name |-> "probeB", pos |-> 2],
                     [name |-> "probeA", pos |-> 3]>>
    /\ pf.skip_probes = {<<"probeB">>}
    /\ pf.out.err = NoErr
    /\ Len(pf.out.probes) = 2

-----------------------------------------------------------------------------
(* The validity and out-of-brain filters of get_units_table, and the order *)
(* of the probes of from_json.                                             *)

UnitsCalled == pf.fn = "get_units_table" /\ pf.called /\ pf.out.err = NoErr

\* the units handed in, and the channels of all probes
InputUnits ==
    UNION {{pf.probes[p][i] : i \in DOMAIN pf.probes[p]} : p \in DOMAIN pf.probes}

AllChannels ==
    UNION {{ProbeChannels[p][i] : i \in DOMAIN ProbeChannels[p]} : p \in DOMAIN ProbeChannels}

ReturnedIds == {pf.out.table[i].id : i \in DOMAIN pf.out.table}

WithinSuppliedBounds(u) ==
    /\ \A b \in pf.amplitude_cutoff_maximum : u.amplitude_cutoff <= b
    /\ \A b \in pf.isi_violations_maximum : u.isi_violations <= b
    /\ \A b \in pf.presence_ratio_minimum : u.presence_ratio >= b

\* C34: with filter_by_validity true get_units_table returns only units of
\* quality "good" whose peak channel is a valid channel; with
\* filter_out_of_brain_units true it returns only units whose peak channel has
\* a structure id; with both flags false no unit is removed on account of its
\* quality or its peak channel.
C34_ValidityAndBrainFilters ==
    UnitsCalled =>
        /\ \A u \in InputUnits :
               u.id \in ReturnedIds =>
                   /\ pf.filter_by_validity =>
                          /\ u.quality = "good"
                          /\ \E c \in AllChannels :
                                 c.id = u.peak_channel_id /\ c.valid_data
                   /\ pf.filter_out_of_brain_units =>
                          \E c \in AllChannels :
                              c.id = u.peak_channel_id /\ c.structure_id # {}
        /\ (~pf.filter_by_validity /\ ~pf.filter_out_of_brain_units) =>
               \A u \in InputUnits : WithinSuppliedBounds(u) => u.id \in ReturnedIds
        /\ ReturnedIds \subseteq {u.id : u \in InputUnits}

C34_Witness ==
    /\ UnitsCalled
    /\ pf.filter_by_validity /\ pf.filter_out_of_brain_units
    /\ Len(pf.probes[1]) = 1 /\ Len(pf.probes[2]) = 1
    /\ pf.probes[1][1].quality = "good" /\ pf.probes[1][1].peak_channel_id = 1
    /\ pf.probes[2][1].quality = "good" /\ pf.probes[2][1].peak_channel_id = 3
    /\ ReturnedIds = {1}

\* C35: the probes held by the result of from_json are in ascending order of
\* their names, whatever the order of the list handed in.
C35_ProbesSortedByName ==
    (FromJsonCalled /\ pf.out.err = NoErr) =>
        \A i, j \in DOMAIN pf.out.probes :
            i < j => NameOrder(pf.out.probes[i].name) <= NameOrder(pf.out.probes[j].name)

C35_Witness ==
    /\ FromJsonCalled
    /\ pf.probes = <<[name |-> "probeC", pos |-> 1], [name |-> "probeA", pos |-> 2],
                     [name |-> "probeB", pos |-> 3]>>
    /\ pf.skip_probes = {}
    /\ pf.out.err = NoErr
    /\ pf.out.probes = <<[name |-> "probeA", json |-> 2], [name |-> "probeB", json |-> 3],
                         [name |-> "probeC", json |-> 1]>>

-----------------------------------------------------------------------------
(* VBNRunningSpeed: construction, from_json and to_json.  An optional      *)
(* value is the empty set when it is None and {v} when it is v; in a       *)
(* dict_repr the empty set stands for a key that is absent.                *)

PathKeys == <<"sync_file", "behavior_stimulus_file", "mapping_stimulus_file",
              "replay_stimulus_file">>

FilePaths == {"/allen/a", "/allen/b"}

OptionalPaths == {{}} \cup {{f} : f \in FilePaths}

ZscoreThresholds == {10, 5}

\* the keyword arguments of a direct construction
InitKwargs ==
    [sync_file : OptionalPaths, behavior_stimulus_file : OptionalPaths,
     mapping_stimulus_file : OptionalPaths, replay_stimulus_file : OptionalPaths,
     use_lowpass_filter : BOOLEAN, zscore_threshold : ZscoreThresholds,
     filtered : BOOLEAN]

\* the dictionaries handed to from_json
DictReprs ==
    [sync_file : OptionalPaths, behavior_stimulus_file : OptionalPaths,
     mapping_stimulus_file : OptionalPaths, replay_stimulus_file : OptionalPaths,
     use_lowpass_filter : {{}, {TRUE}, {FALSE}},
     zscore_threshold : {{}} \cup {{z} : z \in ZscoreThresholds}]

\* VBNRunningSpeed.__init__ with its parameters in the order of the signature
VBNRunningSpeed_init(running_speed, sync_file, behavior_stimulus_file, replay_stimulus_file, mapping_stimulus_file, use_lowpass_filter, zscore_threshold, filtered) ==
    [value |-> running_speed,
     _sync_file |-> sync_file,
     _behavior_stimulus_file |-> behavior_stimulus_file,
     _replay_stimulus_file |-> replay_stimulus_file,
     _mapping_stimulus_file |-> mapping_stimulus_file,
     _use_lowpass_filter |-> use_lowpass_filter,
     _zscore_threshold |-> zscore_threshold,
     _filtered |-> filtered]

\* multi_stim_running_df_from_raw_data: the velocity data of the four files, or
\* the error of a file that cannot be processed
multi_stim_running_df_from_raw_data(raw_data_ok) ==
    IF raw_data_ok THEN [err |-> NoErr, velocity_data |-> "velocity_data"]
    ELSE [err |-> "Exception", velocity_data |-> None]

_get_multi_stim_running_df(raw_data_ok) ==
    LET raw == multi_stim_running_df_from_raw_data(raw_data_ok)
    IN  IF raw.err # NoErr THEN [err |-> raw.err, df |-> None]
        ELSE [err |-> NoErr, df |-> "DataFrame(timestamps, speed)"]

only(x) == CHOOSE v \in x : TRUE

\* faulty variant of from_json: the arguments of cls(...) are passed by position
running_speed_from_json_positional(dict_repr, raw_data_ok) ==
    IF \E i \in DOMAIN PathKeys : dict_repr[PathKeys[i]] = {}
    THEN [err |-> "KeyError", obj |-> {}]
    ELSE LET use_lowpass_filter ==
                 IF dict_repr.use_lowpass_filter # {}
                 THEN only(dict_repr.use_lowpass_filter) ELSE TRUE
             zscore_threshold ==
                 IF dict_repr.zscore_threshold # {}
                 THEN only(dict_repr.zscore_threshold) ELSE 10
             df == _get_multi_stim_running_df(raw_data_ok)
         IN  IF df.err # NoErr THEN [err |-> df.err, obj |-> {}]
             ELSE [err |-> NoErr,
                   obj |-> {VBNRunningSpeed_init(
                                df.df, dict_repr.sync_file,
                                dict_repr.behavior_stimulus_file,
                                dict_repr.mapping_stimulus_file,
                                dict_repr.replay_stimulus_file,
                                use_lowpass_filter, zscore_threshold, FALSE)}]

running_speed_from_json(dict_repr, raw_data_ok) ==
    IF \E i \in DOMAIN PathKeys : dict_repr[PathKeys[i]] = {}
    THEN [err |-> "KeyError", obj |-> {}]
    ELSE LET use_lowpass_filter ==
                 IF dict_repr.use_lowpass_filter # {}
                 THEN only(dict_repr.use_lowpass_filter) ELSE TRUE
             zscore_threshold ==
                 IF dict_repr.zscore_threshold # {}
                 THEN only(dict_repr.zscore_threshold) ELSE 10
             df == _get_multi_stim_running_df(raw_data_ok)
         IN  IF df.err # NoErr THEN [err |-> df.err, obj |-> {}]
             ELSE [err |-> NoErr,
                   obj |-> {VBNRunningSpeed_init(
                                df.df, dict_repr.sync_file,
                                dict_repr.behavior_stimulus_file,
                                dict_repr.replay_stimulus_file,
                                dict_repr.mapping_stimulus_file,
                                use_lowpass_filter, zscore_threshold, FALSE)}]

\* the values to_json loops over, in the order of the loop
to_json_values(self) ==
    <<self._sync_file, self._behavior_stimulus_file, self._mapping_stimulus_file,
      self._replay_stimulus_file>>

\* faulty variant of to_json: only a missing sync file is reported
to_json_sync_only(self) ==
    LET values == to_json_values(self)
        msg == IF values[1] = {} THEN <<PathKeys[1]>> ELSE <<>>
    IN  IF Len(msg) > 0
        THEN [err |-> "RuntimeError", msg |-> msg, output |-> {}]
        ELSE [err |-> NoErr, msg |-> <<>>,
              output |-> {[sync_file |-> values[1],
                           behavior_stimulus_file |-> values[2],
                           mapping_stimulus_file |-> values[3],
                           replay_stimulus_file |-> values[4],
                           use_lowpass_filter |-> self._use_lowpass_filter,
                           zscore_threshold |-> self._zscore_threshold,
                           filtered |-> self._filtered]}]

\* to_json: msg is the sequence of the keys reported as None; the output holds
\* each path as the optional value it is
to_json(self) ==
    LET values == to_json_values(self)
        is_none(key) == \E i \in DOMAIN PathKeys : PathKeys[i] = key /\ values[i] = {}
        msg == SelectSeq(PathKeys, is_none)
    IN  IF Len(msg) > 0
        THEN [err |-> "RuntimeError", msg |-> msg, output |-> {}]
        ELSE [err |-> NoErr, msg |-> <<>>,
              output |-> {[sync_file |-> values[1],
                           behavior_stimulus_file |-> values[2],
                           mapping_stimulus_file |-> values[3],
                           replay_stimulus_file |-> values[4],
                           use_lowpass_filter |-> self._use_lowpass_filter,
                           zscore_threshold |-> self._zscore_threshold,
                           filtered |-> self._filtered]}]

InitRS ==
    /\ \/ pf \in [fn : {"VBNRunningSpeed"}, called : {FALSE}, ctor : {"__init__"},
                  kwargs : InitKwargs, stage : {"input"}]
       \/ pf \in [fn : {"VBNRunningSpeed"}, called : {FALSE}, ctor : {"from_json"},
                  dict_repr : DictReprs, raw_data_ok : BOOLEAN, stage : {"input"}]
    /\ dd = DdIdle
    /\ cache = None
    /\ vc = VcIdle
    /\ published = NumManifests - 1
    /\ facade = "absent"
    /\ skip = FALSE
    /\ manifest = NoManifest
    /\ tables = UnsetTables
    /\ fs = AllVolatilePaths
    /\ net = TRUE
    /\ last = Idle
    /\ fetch_tries = DefaultFetchTries

\* VBNRunningSpeed(running_speed=df, sync_file=..., ...)
RsInit ==
    /\ pf.fn = "VBNRunningSpeed" /\ pf.stage = "input" /\ pf.ctor = "__init__"
    /\ pf' = [pf EXCEPT !.stage = "built"] @@
             [err |-> NoErr,
              obj |-> {VBNRunningSpeed_init(
                           "DataFrame(timestamps, speed)", pf.kwargs.sync_file,
                           pf.kwargs.behavior_stimulus_file,
                           pf.kwargs.replay_stimulus_file,
                           pf.kwargs.mapping_stimulus_file,
                           pf.kwargs.use_lowpass_filter,
                           pf.kwargs.zscore_threshold, pf.kwargs.filtered)}]
    /\ UNCHANGED <<cache, dd, vc, published, facade, skip, manifest, tables, fs, net, last, fetch_tries>>

\* VBNRunningSpeed.from_json(dict_repr)
RsFromJson ==
    /\ pf.fn = "VBNRunningSpeed" /\ pf.stage = "input" /\ pf.ctor = "from_json"
    /\ \E r \in {running_speed_from_json(pf.dict_repr, pf.raw_data_ok)} :
           pf' = [pf EXCEPT !.stage = IF r.err = NoErr THEN "built" ELSE "failed"]
                 @@ [err |-> r.err, obj |-> r.obj]
    /\ UNCHANGED <<cache, dd, vc, published, facade, skip, manifest, tables, fs, net, last, fetch_tries>>

\* obj.to_json()
RsToJson ==
    /\ pf.fn = "VBNRunningSpeed" /\ pf.stage = "built"
    /\ pf' = [pf EXCEPT !.stage = "dumped", !.called = TRUE] @@
             [out |-> to_json(only(pf.obj))]
    /\ UNCHANGED <<cache, dd, vc, published, facade, skip, manifest, tables, fs, net, last, fetch_tries>>

NextRS == RsInit \/ RsFromJson \/ RsToJson

SpecRS == InitRS /\ [][NextRS]_vars

ToJsonCalled == pf.fn = "VBNRunningSpeed" /\ pf.stage = "dumped"

JsonKeys ==
    {"sync_file", "behavior_stimulus_file", "mapping_stimulus_file",
     "replay_stimulus_file", "use_lowpass_filter", "zscore_threshold", "filtered"}

\* C32: to_json raises RuntimeError and returns nothing if any of the object's
\* sync_file, behavior_stimulus_file, mapping_stimulus_file,
\* replay_stimulus_file is None; otherwise it returns a dict with exactly the
\* seven keys, carrying the object's values.
C32_ToJson ==
    ToJsonCalled =>
        LET self == only(pf.obj) IN
        IF \/ self._sync_file = {} \/ self._behavior_stimulus_file = {}
           \/ self._mapping_stimulus_file = {} \/ self._replay_stimulus_file = {}
        THEN pf.out.err = "RuntimeError" /\ pf.out.output = {}
        ELSE /\ pf.out.err = NoErr
             /\ Cardinality(pf.out.output) = 1
             /\ \A output \in pf.out.output :
                    /\ DOMAIN output = JsonKeys
                    /\ output.sync_file = self._sync_file
                    /\ output.behavior_stimulus_file = self._behavior_stimulus_file
                    /\ output.mapping_stimulus_file = self._mapping_stimulus_file
                    /\ output.replay_stimulus_file = self._replay_stimulus_file
                    /\ output.use_lowpass_filter = self._use_lowpass_filter
                    /\ output.zscore_threshold = self._zscore_threshold
                    /\ output.filtered = self._filtered

\* an object built directly whose replay file alone is None
C32_Witness ==
    /\ ToJsonCalled /\ pf.ctor = "__init__"
    /\ pf.kwargs.replay_stimulus_file = {}
    /\ pf.kwargs.sync_file # {} /\ pf.kwargs.behavior_stimulus_file # {}
    /\ pf.kwargs.mapping_stimulus_file # {}
    /\ pf.out.err = "RuntimeError"

C32_WitnessDict ==
    /\ ToJsonCalled /\ pf.ctor = "__init__"
    /\ pf.kwargs.filtered
    /\ pf.out.err = NoErr
    /\ \E output \in pf.out.output : output.filtered

\* C33: for every dict d holding the four file paths, from_json(d).to_json()
\* returns the four paths of d unchanged, use_lowpass_filter and
\* zscore_threshold equal to d's values, or to the defaults True and 10.0 when
\* d omits them, and filtered equal to False.
C33_JsonRoundTrip ==
    (ToJsonCalled /\ pf.ctor = "from_json") =>
        /\ pf.out.err = NoErr
        /\ \E output \in pf.out.output :
               /\ output.sync_file = pf.dict_repr.sync_file
               /\ output.behavior_stimulus_file = pf.dict_repr.behavior_stimulus_file
               /\ output.mapping_stimulus_file = pf.dict_repr.mapping_stimulus_file
               /\ output.replay_stimulus_file = pf.dict_repr.replay_stimulus_file
               /\ {output.use_lowpass_filter} =
                      IF pf.dict_repr.use_lowpass_filter = {} THEN {TRUE}
                      ELSE pf.dict_repr.use_lowpass_filter
               /\ {output.zscore_threshold} =
                      IF pf.dict_repr.zscore_threshold = {} THEN {10}
                      ELSE pf.dict_repr.zscore_threshold
               /\ output.filtered = FALSE

C33_Witness ==
    /\ ToJsonCalled /\ pf.ctor = "from_json"
    /\ pf.dict_repr.mapping_stimulus_file = {"/allen/a"}
    /\ pf.dict_repr.replay_stimulus_file = {"/allen/b"}
    /\ pf.dict_repr.use_lowpass_filter = {}
    /\ pf.dict_repr.zscore_threshold = {5}
    /\ \E output \in pf.out.output :
           output.use_lowpass_filter /\ output.zscore_threshold = 5

-----------------------------------------------------------------------------
(* The facade's own cache attribute and its manifest property.             *)

\* C31: in every state of a VisualBehaviorEcephysProjectCache, however it was
\* constructed and whatever manifests were loaded, its own cache attribute is
\* None, and reading its manifest property raises NotImplementedError.
C31_OwnCacheIsNone ==
    /\ facade # "absent" => cache = None
    /\ last.op = "manifest" =>
           (last.err = "NotImplementedError" /\ last.ret = None)

\* the property read on a facade from_local_cache after an older manifest was loaded
C31_Witness ==
    /\ facade = "local"
    /\ manifest = "m1"
    /\ tables = [t \in expected_metadata |-> "m1"]
    /\ last.op = "manifest"
    /\ last.err = "NotImplementedError"

====
